---- MODULE Spec2Model ----
(***************************************************************************)
(* Model of the reactive store (src/src/state/store.ts, first Store class) *)
(* and of the virtual-DOM reconciler (src/src/dom/render.ts, keyed         *)
(* version, lines 312-696).                                                *)
(*                                                                         *)
(* JavaScript values are records [t, id, n, f]:                            *)
(*   t = "undef" | "null" | "num" | "obj" | "arr"                          *)
(*   n  the number, for t = "num"                                          *)
(*   f  for "obj" the sequence of [k, v] entries in insertion order,       *)
(*      for "arr" the sequence of elements                                 *)
(*   id distinguishes two objects of equal content, so that equality of    *)
(*      two records is JavaScript's === (by value for primitives, by       *)
(*      reference for objects and arrays).                                 *)
(* Strings that the code parses or builds (paths) are sequences of         *)
(* one-character strings.                                                  *)
(***************************************************************************)
EXTENDS Integers, Sequences, FiniteSets, TLC

\* ------------------------------------------------------------------ values

Undef == [t |-> "undef", id |-> 0, n |-> 0, f |-> <<>>]

Null == [t |-> "null", id |-> 0, n |-> 0, f |-> <<>>]

Num(x) == [t |-> "num", id |-> 0, n |-> x, f |-> <<>>]

Obj(i, entries) == [t |-> "obj", id |-> i, n |-> 0, f |-> entries]

Arr(i, elems) == [t |-> "arr", id |-> i, n |-> 0, f |-> elems]

E(key, val) == [k |-> key, v |-> val]

\* typeof v === 'object' && v  (null is excluded by the truthiness test)
IsObjectLike(v) == v.t \in {"obj", "arr"}

IsNullish(v) == v.t \in {"undef", "null"}

Digits == <<"0", "1", "2", "3", "4", "5", "6", "7", "8", "9">>

IsDigit(c) == \E d \in 1..10 : Digits[d] = c

DigitVal(c) == (CHOOSE d \in 1..10 : Digits[d] = c) - 1

\* String(i) for the small indices the model uses
IndexStr(i) == Digits[i + 1]

\* the property names a for-in loop enumerates
KeysOf(v) ==
    IF v.t = "obj" THEN [j \in 1..Len(v.f) |-> v.f[j].k]
    ELSE IF v.t = "arr" THEN [j \in 1..Len(v.f) |-> IndexStr(j - 1)]
    ELSE <<>>

\* key in v
HasKey(v, key) == \E j \in 1..Len(KeysOf(v)) : KeysOf(v)[j] = key

\* v[key] for a property name
GetProp(v, key) ==
    IF v.t = "obj" THEN
        IF \E j \in 1..Len(v.f) : v.f[j].k = key
        THEN v.f[CHOOSE j \in 1..Len(v.f) : v.f[j].k = key].v
        ELSE Undef
    ELSE IF v.t = "arr" THEN
        IF IsDigit(key) /\ DigitVal(key) < Len(v.f)
        THEN v.f[DigitVal(key) + 1]
        ELSE Undef
    ELSE Undef

\* v[i] for a number
GetIndex(v, i) ==
    IF i < 0 THEN Undef ELSE GetProp(v, IndexStr(i))

\* { ...a, ...b } : the entries of a with b's values, then b's new keys
RECURSIVE Spread(_, _)
Spread(a, b) ==
    IF b = <<>> THEN a
    ELSE LET e == Head(b)
             merged == IF \E j \in 1..Len(a) : a[j].k = e.k
                       THEN [j \in 1..Len(a) |-> IF a[j].k = e.k THEN e ELSE a[j]]
                       ELSE Append(a, e)
         IN Spread(merged, Tail(b))

\* ------------------------------------------------------------------- paths

\* path.indexOf(c, from) with 0-based positions, -1 when absent
IndexOf(path, c, from) ==
    IF \E j \in (from + 1)..Len(path) : path[j] = c
    THEN (CHOOSE j \in (from + 1)..Len(path) :
              /\ path[j] = c
              /\ \A h \in (from + 1)..(j - 1) : path[h] # c) - 1
    ELSE -1

\* path.substring(from, to)
Substring(path, from, to) == SubSeq(path, from + 1, to)

Min(a, b) == IF a < b THEN a ELSE b

Max(a, b) == IF a > b THEN a ELSE b

\* parseInt: the value of the leading run of digits, NaN when there is none
RECURSIVE DigitsValue(_, _)
DigitsValue(s, acc) ==
    IF s = <<>> \/ ~IsDigit(Head(s)) THEN acc
    ELSE DigitsValue(Tail(s), acc * 10 + DigitVal(Head(s)))

parseInt(s) ==
    IF s # <<>> /\ IsDigit(Head(s)) THEN [nan |-> FALSE, v |-> DigitsValue(s, 0)]
    ELSE IF Len(s) >= 2 /\ Head(s) = "-" /\ IsDigit(s[2])
         THEN [nan |-> FALSE, v |-> 0 - DigitsValue(Tail(s), 0)]
    ELSE [nan |-> TRUE, v |-> 0]

\* the property named by a run of characters: the model's keys are single
\* characters, a longer name names no property
NameOf(s) == IF Len(s) = 1 THEN s[1] ELSE "?"

RECURSIVE WalkPath(_, _, _)
WalkPath(current, path, i) ==
    IF ~(i < Len(path)) \/ IsNullish(current) THEN current
    ELSE LET dotIndex == IndexOf(path, ".", i)
             bracketIndex == IndexOf(path, "[", i)
             d1 == IF dotIndex # -1 THEN Min(Len(path), dotIndex) ELSE Len(path)
             nextDelimiter == IF bracketIndex # -1 THEN Min(d1, bracketIndex) ELSE d1
         IN IF nextDelimiter = i THEN
                IF path[i + 1] = "." THEN WalkPath(current, path, i + 1)
                ELSE LET closingBracket == IndexOf(path, "]", i)
                         index == parseInt(Substring(path, i + 1, closingBracket))
                     IN IF closingBracket = -1 THEN current
                        ELSE IF index.nan THEN current
                        ELSE WalkPath(GetIndex(current, index.v), path, closingBracket + 1)
            ELSE WalkPath(GetProp(current, NameOf(Substring(path, i, nextDelimiter))),
                          path, nextDelimiter)

getValueByPathAndObject(obj, path) ==
    IF path = <<>> THEN obj ELSE WalkPath(obj, path, 0)

\* ------------------------------------------------------- change detection

JoinKey(basePath, key) ==
    IF basePath # <<>> THEN basePath \o <<".">> \o <<key>> ELSE <<key>>

RECURSIVE detectChangedPaths(_, _, _)
RECURSIVE DetectKeys(_, _, _, _)
RECURSIVE DetectArray(_, _, _, _)

\* the loop over the indices of two arrays (store.ts 103-116), from index i
DetectArray(oldValue, newValue, fullPath, i) ==
    IF ~(i < Max(Len(oldValue.f), Len(newValue.f))) THEN <<>>
    ELSE LET arrayPath == fullPath \o <<"[", IndexStr(i), "]">>
             o == GetIndex(oldValue, i)
             n == GetIndex(newValue, i)
             here == IF o # n
                     THEN <<arrayPath>> \o
                          (IF IsObjectLike(n) /\ IsObjectLike(o)
                           THEN detectChangedPaths(o, n, arrayPath)
                           ELSE <<>>)
                     ELSE <<>>
         IN here \o DetectArray(oldValue, newValue, fullPath, i + 1)

\* the loop over the keys of newState (store.ts 88-125), from the j-th key
DetectKeys(oldState, newState, basePath, j) ==
    IF j > Len(KeysOf(newState)) THEN <<>>
    ELSE LET key == KeysOf(newState)[j]
             fullPath == JoinKey(basePath, key)
             oldValue == GetProp(oldState, key)
             newValue == GetProp(newState, key)
             here == IF oldValue # newValue
                     THEN <<fullPath>> \o
                          (IF IsObjectLike(newValue) /\ IsObjectLike(oldValue)
                           THEN IF newValue.t = "arr" /\ oldValue.t = "arr"
                                THEN DetectArray(oldValue, newValue, fullPath, 0)
                                ELSE detectChangedPaths(oldValue, newValue, fullPath)
                           ELSE <<>>)
                     ELSE <<>>
         IN here \o DetectKeys(oldState, newState, basePath, j + 1)

\* the keys of oldState that newState no longer has (store.ts 131-136)
RemovedKeys(oldState, newState, basePath) ==
    LET ks == KeysOf(oldState)
        F[j \in 0..Len(ks)] ==
            IF j = 0 THEN <<>>
            ELSE IF ~HasKey(newState, ks[j])
                 THEN Append(F[j - 1], JoinKey(basePath, ks[j]))
                 ELSE F[j - 1]
    IN F[Len(ks)]

detectChangedPaths(oldState, newState, basePath) ==
    IF ~IsObjectLike(oldState) \/ ~IsObjectLike(newState) THEN <<>>
    ELSE DetectKeys(oldState, newState, basePath, 1)
         \o RemovedKeys(oldState, newState, basePath)

\* ------------------------------------------------------------------ bounds

\* calls of subscribe, subscribeTo, setState and setBatchedState that the
\* application makes
MaxOps == 3

\* ------------------------------------------------------------ environment

\* The listener functions the application registers.  "L" returns normally,
\* "T" throws, "R" calls setBatchedState(ReentrantUpdate) and returns, "U"
\* calls the unsubscribe function that its own subscription returned.
\* "C1" and "C2" are the path listeners that a ReactiveComponent subscribes
\* at its first and second mount.
Listeners == {"L", "T", "R", "U", "C1", "C2"}

\* the subscriptions the application makes: a path (<<>> for subscribe, else
\* one of  a.b  a[0][0]  k  for subscribeTo) and a listener
Subscriptions ==
    { [path |-> <<>>, l |-> "L"], [path |-> <<>>, l |-> "T"], [path |-> <<>>, l |-> "R"],
      [path |-> <<"a", ".", "b">>, l |-> "L"], [path |-> <<"a", ".", "b">>, l |-> "T"],
      [path |-> <<"a", "[", "0", "]", "[", "0", "]">>, l |-> "L"],
      [path |-> <<"k">>, l |-> "L"], [path |-> <<"k">>, l |-> "R"],
      [path |-> <<>>, l |-> "U"], [path |-> <<"k">>, l |-> "U"] }

State(entries) == Obj(0, entries)

\* the values the application stores under the key a
AValues ==
    { Obj(0, <<E("b", Num(1))>>), Obj(1, <<E("b", Num(1))>>), Obj(0, <<E("b", Num(2))>>),
      Arr(0, <<Arr(0, <<Num(1)>>)>>), Arr(0, <<Arr(0, <<Num(2)>>)>>) }

\* the values the application stores under the key k
KValues == { Num(1), Num(2) }

\* the arguments of setState / setBatchedState: a partial object, or a
\* function (fn) returning val whatever the previous state
Updates ==
    { [fn |-> FALSE, val |-> State(<<E("a", v)>>)] : v \in AValues }
    \cup { [fn |-> FALSE, val |-> State(<<E("k", v)>>)] : v \in KValues }
    \cup { [fn |-> TRUE, val |-> State(<<>>)] }

ReentrantUpdate == [fn |-> FALSE, val |-> State(<<E("k", Num(2))>>)]

\* -------------------------------------------------------------- the store

VARIABLES
    state,            \* Store.state
    listeners,        \* Store.listeners, in subscription order
    pathListeners,    \* Store.pathListeners: entries [path, ls] in insertion order
    pendingUpdate,    \* Store.pendingUpdate
    pendingChanges,   \* Store.pendingChanges: the paths of the Set in insertion order
    rafId,            \* Store.rafId, 0 for null
    batchOldState,    \* Store.batchOldState, Null for null
    batchNewState,    \* Store.batchNewState, Null for null
    frames,           \* host: the requestAnimationFrame handles still scheduled
    nextHandle,       \* host: the next handle requestAnimationFrame returns
    ops,              \* history: the number of application calls made so far
    calls,            \* history: the kind of each mutation call made so far
    windowCalls,      \* history: the calls accumulated in the open batch window
    seen,             \* history: per listener, the calls it was notified of
    inversions,       \* history: <<kind of earlier call, kind of later call>> of
                      \*          each pair a listener saw in reverse order
    lastOp            \* history: the last operation, its snapshots and invocations

storeVars == <<state, listeners, pathListeners, pendingUpdate, pendingChanges, rafId,
               batchOldState, batchNewState, frames, nextHandle,
               ops, calls, windowCalls, seen, inversions, lastOp>>

\* the store, the host and the history as one record, threaded through the
\* operators below as `this`
Pack ==
    [ state |-> state, listeners |-> listeners, pathListeners |-> pathListeners,
      pendingUpdate |-> pendingUpdate, pendingChanges |-> pendingChanges,
      rafId |-> rafId, batchOldState |-> batchOldState, batchNewState |-> batchNewState,
      frames |-> frames, nextHandle |-> nextHandle,
      windowCalls |-> windowCalls, seen |-> seen, inversions |-> inversions,
      callKinds |-> calls,
      log |-> <<>>, thrown |-> FALSE, reentered |-> <<>> ]

PathIndex(pl, path) ==
    IF \E i \in 1..Len(pl) : pl[i].path = path
    THEN CHOOSE i \in 1..Len(pl) : pl[i].path = path
    ELSE 0

\* pendingChanges.add(path) for each path, in order
RECURSIVE AddAll(_, _)
AddAll(set, paths) ==
    IF paths = <<>> THEN set
    ELSE AddAll(IF \E i \in 1..Len(set) : set[i] = Head(paths) THEN set
                ELSE Append(set, Head(paths)),
                Tail(paths))

\* a mutation that drops the previous snapshot instead of merging into it
NextState_Replace(oldState, u) == u.val

\* the snapshot a mutation installs (store.ts 210-216 and 223-229)
NextState(oldState, u) ==
    IF u.fn THEN u.val ELSE State(Spread(oldState.f, u.val.f))

scheduleBatchUpdate(this, oldState, newState, callNo) ==
    LET opens == ~this.pendingUpdate
    IN [this EXCEPT
          !.batchOldState = IF opens THEN oldState ELSE @,
          !.batchNewState = newState,
          !.pendingChanges = AddAll(@, detectChangedPaths(oldState, newState, <<>>)),
          !.pendingUpdate = TRUE,
          !.rafId = IF opens THEN this.nextHandle ELSE @,
          !.frames = IF opens THEN @ \cup {this.nextHandle} ELSE @,
          !.nextHandle = IF opens THEN @ + 1 ELSE @,
          !.windowCalls = @ \cup callNo ]

setBatchedStateOn(this, u, callNo) ==
    LET oldState == this.state
        newState == NextState(oldState, u)
    IN scheduleBatchUpdate([this EXCEPT !.state = newState], oldState, newState, callNo)

\* history: listener l is notified of the calls in cs
Notice(this, l, cs) ==
    LET before == this.seen[l]
    IN [this EXCEPT
          !.seen[l] = @ \cup cs,
          !.inversions = @ \cup
              { <<this.callKinds[c], this.callKinds[d]>> :
                    <<c, d>> \in { p \in (cs \ before) \X before : p[2] > p[1] } } ]

\* store.ts 238-240: the function subscribe(listener) returned
unsubscribe(this, listener) ==
    [this EXCEPT !.listeners = SelectSeq(@, LAMBDA l : l # listener)]

\* store.ts 250-256: the function subscribeTo(path, listener) returned
unsubscribeFrom(this, path, listener) ==
    LET i == PathIndex(this.pathListeners, path)
    IN IF i = 0 THEN this
       ELSE LET ls == this.pathListeners[i].ls
                index == IndexOf(ls, listener, 0)
            IN IF index > -1
               THEN [this EXCEPT !.pathListeners[i].ls =
                         SubSeq(ls, 1, index) \o SubSeq(ls, index + 2, Len(ls))]
               ELSE this

\* one call listener(...) : the call is recorded, then the listener body runs.
\* An exception leaves `thrown` set; every later step of the operation that
\* the exception unwinds is skipped.
Invoke(this, l, entry, cs) ==
    IF this.thrown THEN this
    ELSE LET t1 == Notice([this EXCEPT !.log = Append(@, entry)], l, cs)
         IN IF l = "T" THEN [t1 EXCEPT !.thrown = TRUE]
            ELSE IF l = "R"
            THEN setBatchedStateOn(
                     [t1 EXCEPT !.reentered = Append(@, [before |-> t1.state,
                                                         pending |-> t1.pendingUpdate])],
                     ReentrantUpdate, {})
            ELSE IF l = "U"
            THEN IF entry.kind = "state" THEN unsubscribe(t1, l)
                 ELSE unsubscribeFrom(t1, entry.path, l)
            ELSE t1

\* listeners.forEach(listener => listener(newValue, oldValue)) over the array
\* registered for `path`: positions j..n of the array as it is when visited
RECURSIVE ForEachPathListener(_, _, _, _, _, _, _)
ForEachPathListener(this, path, j, n, newValue, oldValue, cs) ==
    LET i == PathIndex(this.pathListeners, path)
        arr == this.pathListeners[i].ls
    IN IF j > n \/ this.thrown THEN this
       ELSE IF j > Len(arr) THEN this
       ELSE ForEachPathListener(
                Invoke(this, arr[j],
                       [l |-> arr[j], kind |-> "path", path |-> path,
                        new |-> newValue, old |-> oldValue], cs),
                path, j + 1, n, newValue, oldValue, cs)

\* arr.forEach(listener => listener(newState, oldState)) over the array that
\* this.listeners referred to when forEach was called; the arguments are
\* read when each listener is called
RECURSIVE ForEachListener(_, _, _, _, _)
ForEachListener(this, arr, j, batch, args) ==
    IF j > Len(arr) \/ this.thrown THEN this
    ELSE LET newState == IF batch THEN this.batchNewState ELSE args.new
             oldState == IF batch THEN this.batchOldState ELSE args.old
         IN ForEachListener(
                Invoke(this, arr[j],
                       [l |-> arr[j], kind |-> "state", path |-> <<>>,
                        new |-> newState, old |-> oldState],
                       IF batch THEN this.windowCalls ELSE args.cs),
                arr, j + 1, batch, args)

\* store.ts 142-152: the entries of the Map from the i-th on
RECURSIVE notifyPathListeners(_, _, _, _, _)
notifyPathListeners(this, oldState, newState, i, cs) ==
    IF i > Len(this.pathListeners) \/ this.thrown THEN this
    ELSE LET path == this.pathListeners[i].path
             oldValue == getValueByPathAndObject(oldState, path)
             newValue == getValueByPathAndObject(newState, path)
             t1 == IF oldValue # newValue
                   THEN ForEachPathListener(this, path, 1, Len(this.pathListeners[i].ls),
                                            newValue, oldValue, cs)
                   ELSE this
         IN notifyPathListeners(t1, oldState, newState, i + 1, cs)

\* notifyListeners with the two notifications swapped
notifyListeners_StateFirst(this, oldState, newState, cs) ==
    LET t1 == ForEachListener(this, this.listeners, 1, FALSE,
                              [new |-> newState, old |-> oldState, cs |-> cs])
    IN notifyPathListeners(t1, oldState, newState, 1, cs)

\* store.ts 193-196
notifyListeners(this, oldState, newState, cs) ==
    LET t1 == notifyPathListeners(this, oldState, newState, 1, cs)
    IN ForEachListener(t1, t1.listeners, 1, FALSE,
                       [new |-> newState, old |-> oldState, cs |-> cs])

\* store.ts 156-163: the paths of pendingChanges from the i-th on (a Set's
\* forEach also visits the paths added while it runs)
RECURSIVE FlushPaths(_, _)
FlushPaths(this, i) ==
    IF i > Len(this.pendingChanges) \/ this.thrown THEN this
    ELSE LET path == this.pendingChanges[i]
             k == PathIndex(this.pathListeners, path)
             oldValue == getValueByPathAndObject(this.batchOldState, path)
             newValue == getValueByPathAndObject(this.batchNewState, path)
             t1 == IF k # 0
                   THEN ForEachPathListener(this, path, 1, Len(this.pathListeners[k].ls),
                                            newValue, oldValue, this.windowCalls)
                   ELSE this
         IN FlushPaths(t1, i + 1)

\* store.ts 155-172
flushUpdates(this) ==
    LET t1 == FlushPaths(this, 1)
        t2 == ForEachListener(t1, t1.listeners, 1, TRUE, [new |-> Null, old |-> Null, cs |-> {}])
    IN IF t2.thrown THEN t2
       ELSE [t2 EXCEPT !.pendingUpdate = FALSE, !.pendingChanges = <<>>, !.rafId = 0,
                       !.batchOldState = Null, !.batchNewState = Null,
                       !.windowCalls = {}]

\* store.ts 199-204
flushSyncOn(this) ==
    IF this.rafId # 0
    THEN flushUpdates([this EXCEPT !.frames = @ \ {this.rafId}])
    ELSE this

\* store.ts 209-219
setStateOn(this, u, callNo) ==
    LET oldState == this.state
        newState == NextState(oldState, u)
    IN notifyListeners([this EXCEPT !.state = newState], oldState, newState, callNo)

\* ---------------------------------------------------------------- actions

NoOp ==
    [ op |-> "none", update |-> [fn |-> FALSE, val |-> State(<<>>)],
      old |-> Null, new |-> Null, log |-> <<>>, thrown |-> FALSE,
      reentered |-> <<>>, listeners |-> <<>>, pathListeners |-> <<>>,
      pendingChanges |-> <<>>, wasPending |-> FALSE, rafId |-> 0 ]

\* the record of an operation that started in the current state and ended in t
OpRecord(name, u, old, new, t) ==
    [ op |-> name, update |-> u, old |-> old, new |-> new,
      log |-> t.log, thrown |-> t.thrown, reentered |-> t.reentered,
      listeners |-> listeners, pathListeners |-> pathListeners,
      pendingChanges |-> pendingChanges, wasPending |-> pendingUpdate, rafId |-> rafId ]

\* the store, the host and the history take the values of record t
Install(t) ==
    /\ state' = t.state
    /\ listeners' = t.listeners
    /\ pathListeners' = t.pathListeners
    /\ pendingUpdate' = t.pendingUpdate
    /\ pendingChanges' = t.pendingChanges
    /\ rafId' = t.rafId
    /\ batchOldState' = t.batchOldState
    /\ batchNewState' = t.batchNewState
    /\ frames' = t.frames
    /\ nextHandle' = t.nextHandle
    /\ windowCalls' = t.windowCalls
    /\ seen' = t.seen
    /\ inversions' = t.inversions

\* new Store(initialState)
StoreOf(initialState) ==
    /\ state = initialState
    /\ listeners = <<>>
    /\ pathListeners = <<>>
    /\ pendingUpdate = FALSE
    /\ pendingChanges = <<>>
    /\ rafId = 0
    /\ batchOldState = Null
    /\ batchNewState = Null
    /\ frames = {}
    /\ nextHandle = 1
    /\ ops = 0
    /\ calls = <<>>
    /\ windowCalls = {}
    /\ seen = [l \in Listeners |-> {}]
    /\ inversions = {}
    /\ lastOp = NoOp

StoreInit == StoreOf(State(<<>>))

\* store.ts 235-241
Subscribe(l) ==
    /\ ops < MaxOps
    /\ ops' = ops + 1
    /\ listeners' = Append(listeners, l)
    /\ lastOp' = OpRecord("subscribe", NoOp.update, Null, Null, Pack)
    /\ UNCHANGED <<state, pathListeners, pendingUpdate, pendingChanges, rafId,
                   batchOldState, batchNewState, frames, nextHandle,
                   calls, windowCalls, seen, inversions>>

\* store.ts 244-257
SubscribeTo(path, l) ==
    /\ ops < MaxOps
    /\ ops' = ops + 1
    /\ LET i == PathIndex(pathListeners, path)
       IN pathListeners' =
              IF i = 0 THEN Append(pathListeners, [path |-> path, ls |-> <<l>>])
              ELSE [pathListeners EXCEPT ![i].ls = Append(@, l)]
    /\ lastOp' = OpRecord("subscribeTo", NoOp.update, Null, Null, Pack)
    /\ UNCHANGED <<state, listeners, pendingUpdate, pendingChanges, rafId,
                   batchOldState, batchNewState, frames, nextHandle,
                   calls, windowCalls, seen, inversions>>

\* store.ts 209-219, called by the application
SetState(u) ==
    /\ ops < MaxOps
    /\ ops' = ops + 1
    /\ calls' = Append(calls, "setState")
    /\ LET callNo == Len(calls) + 1
           this == [Pack EXCEPT !.callKinds = calls']
           t == setStateOn(this, u, {callNo})
       IN /\ Install(t)
          /\ lastOp' = OpRecord("setState", u, state, NextState(state, u), t)

\* a setBatchedState that notifies as setState does
SetBatchedState_Notifying(u) ==
    /\ ops < MaxOps
    /\ ops' = ops + 1
    /\ calls' = Append(calls, "setBatchedState")
    /\ LET callNo == Len(calls) + 1
           this == [Pack EXCEPT !.callKinds = calls']
           t == setStateOn(this, u, {callNo})
       IN /\ Install(t)
          /\ lastOp' = OpRecord("setBatchedState", u, state, NextState(state, u), t)

\* store.ts 222-232, called by the application
SetBatchedState(u) ==
    /\ ops < MaxOps
    /\ ops' = ops + 1
    /\ calls' = Append(calls, "setBatchedState")
    /\ LET callNo == Len(calls) + 1
           this == [Pack EXCEPT !.callKinds = calls']
           t == setBatchedStateOn(this, u, {callNo})
       IN /\ Install(t)
          /\ lastOp' = OpRecord("setBatchedState", u, state, NextState(state, u), t)

\* the host runs the callback given to requestAnimationFrame (store.ts 186-188)
Frame ==
    \E h \in frames :
        LET t == flushUpdates([Pack EXCEPT !.frames = @ \ {h}])
        IN /\ Install(t)
           /\ lastOp' = OpRecord("frame", NoOp.update, batchOldState, batchNewState, t)
           /\ UNCHANGED <<ops, calls>>

\* store.ts 199-204, called by the application
FlushSync ==
    /\ LET t == flushSyncOn(Pack)
       IN /\ Install(t)
          /\ lastOp' = OpRecord("flushSync", NoOp.update, batchOldState, batchNewState, t)
          /\ UNCHANGED <<ops, calls>>


\* ------------------------------------------------ virtual and live trees

\* An ElementChild: a text (string or number), null, or a VirtualElement
\* with its props (entries [k, v] in insertion order) and children.
VText(s) == [vk |-> "text", tag |-> "", props |-> <<>>, text |-> s, children |-> <<>>]

VNull == [vk |-> "null", tag |-> "", props |-> <<>>, text |-> "", children |-> <<>>]

VEl(tag, props, children) ==
    [vk |-> "el", tag |-> tag, props |-> props, text |-> "", children |-> children]

\* A node of the live tree.  nid is the identity of the node object.
\* NoNode is the undefined that childNodes[i] yields past the end.
NoNode == [nk |-> "none", nid |-> 0, tag |-> "", attrs |-> <<>>, text |-> "", kids |-> <<>>]

ElNode(i, tag) == [nk |-> "el", nid |-> i, tag |-> tag, attrs |-> <<>>, text |-> "", kids |-> <<>>]

TextNode(i, s) == [nk |-> "text", nid |-> i, tag |-> "", attrs |-> <<>>, text |-> s, kids |-> <<>>]

\* The document while one render runs: the next node identity, the
\* mutations made so far, and whether an exception is unwinding.
\* The operators below take and return a record d = [w, n]: the document
\* and the node the operator works on, or has made.
World0 == [nextId |-> 1, muts |-> <<>>, thrown |-> FALSE, registry |-> {}, issued |-> 0]

Throw(w) == [w EXCEPT !.thrown = TRUE]

\* the operation op on the attribute key of the node i joins the record of
\* the operations made on the document
MutKey(w, op, i, key) == [w EXCEPT !.muts = Append(@, [op |-> op, nid |-> i, key |-> key])]

Mut(w, op, i) == MutKey(w, op, i, "")

NodeAt(kids, i) == IF i >= 0 /\ i < Len(kids) THEN kids[i + 1] ELSE NoNode

IsChild(parent, node) == \E j \in 1..Len(parent.kids) : parent.kids[j].nid = node.nid

PropIndex(props, key) ==
    IF \E j \in 1..Len(props) : props[j].k = key
    THEN CHOOSE j \in 1..Len(props) : props[j].k = key
    ELSE 0

HasProp(props, key) == PropIndex(props, key) # 0

\* props[key], "undefined" when absent (the model's prop values are strings)
PropValue(props, key) ==
    IF HasProp(props, key) THEN props[PropIndex(props, key)].v ELSE "undefined"

\* element.setAttribute(key, value)
setAttribute(d, key, value) ==
    IF d.n.nk # "el" THEN [d EXCEPT !.w = Throw(@)]
    ELSE [w |-> MutKey(d.w, "setAttribute", d.n.nid, key),
          n |-> [d.n EXCEPT !.attrs =
                    IF HasProp(@, key)
                    THEN [j \in 1..Len(@) |-> IF @[j].k = key THEN E(key, value) ELSE @[j]]
                    ELSE Append(@, E(key, value))]]

\* element.removeAttribute(key)
removeAttribute(d, key) ==
    IF d.n.nk # "el" THEN [d EXCEPT !.w = Throw(@)]
    ELSE [w |-> MutKey(d.w, "removeAttribute", d.n.nid, key),
          n |-> [d.n EXCEPT !.attrs = SelectSeq(@, LAMBDA e : e.k # key)]]

\* parent.appendChild(c.n)
appendNode(parent, c) ==
    IF parent.nk # "el" \/ c.n.nk = "none" THEN [w |-> Throw(c.w), n |-> parent]
    ELSE [w |-> Mut(c.w, "insert", c.n.nid),
          n |-> [parent EXCEPT !.kids =
                    Append(SelectSeq(@, LAMBDA k : k.nid # c.n.nid), c.n)]]

\* parent.insertBefore(c.n, ref): the child leaves its old place, if it has
\* one under parent, and goes before ref; an undefined ref appends, and a
\* child inserted before itself stays where it is
insertBefore(parent, c, ref) ==
    IF parent.nk # "el" \/ c.n.nk = "none" THEN [w |-> Throw(c.w), n |-> parent]
    ELSE IF ref.nk # "none" /\ ref.nid = c.n.nid
    THEN [w |-> Mut(c.w, "insert", c.n.nid), n |-> parent]
    ELSE LET rest == SelectSeq(parent.kids, LAMBDA k : k.nid # c.n.nid)
             at == IF ref.nk = "none" THEN Len(rest) + 1
                   ELSE CHOOSE j \in 1..Len(rest) : rest[j].nid = ref.nid
         IN [w |-> Mut(c.w, "insert", c.n.nid),
             n |-> [parent EXCEPT !.kids =
                       SubSeq(rest, 1, at - 1) \o <<c.n>> \o SubSeq(rest, at, Len(rest))]]

\* d.n.removeChild(child)
removeChild(d, child) ==
    IF d.n.nk # "el" \/ ~IsChild(d.n, child) THEN [d EXCEPT !.w = Throw(@)]
    ELSE [w |-> Mut(d.w, "remove", child.nid),
          n |-> [d.n EXCEPT !.kids = SelectSeq(@, LAMBDA k : k.nid # child.nid)]]

\* parent with its child `node` replaced by (or updated to) `by`
Put(parent, node, by) ==
    [parent EXCEPT !.kids = [j \in 1..Len(@) |-> IF @[j].nid = node.nid THEN by ELSE @[j]]]

\* parent.replaceChild(c.n, oldChild)
replaceChild(parent, c, oldChild) ==
    IF parent.nk # "el" \/ ~IsChild(parent, oldChild) THEN [w |-> Throw(c.w), n |-> parent]
    ELSE [w |-> Mut(Mut(c.w, "remove", oldChild.nid), "insert", c.n.nid),
          n |-> Put(parent, oldChild, c.n)]

\* document.createTextNode(s)
createTextNode(w, s) ==
    [w |-> Mut([w EXCEPT !.nextId = @ + 1], "create", w.nextId), n |-> TextNode(w.nextId, s)]

\* domChild.textContent = s, for a child of d.n
setTextContent(d, domChild, s) ==
    IF domChild.nk = "none" THEN [d EXCEPT !.w = Throw(@)]
    ELSE IF domChild.nk = "text"
    THEN [w |-> Mut(d.w, "setText", domChild.nid),
          n |-> Put(d.n, domChild, [domChild EXCEPT !.text = s])]
    ELSE [w |-> Mut([d.w EXCEPT !.nextId = @ + 1], "setText", domChild.nid),
          n |-> Put(d.n, domChild,
                    [domChild EXCEPT !.kids =
                        IF s = "" THEN <<>> ELSE <<TextNode(d.w.nextId, s)>>])]

\* the props starting with 'on' that the application uses, the event type
\* key.slice(2).toLowerCase() and the attribute of dataset[`event${Type}Id`]
EventKeys == {"onClick"}

EventType(key) == IF key = "onClick" THEN "click" ELSE "none"

EventIdKey(key) == IF key = "onClick" THEN "data-event-click-id" ELSE "data-event-none-id"

\* generateId() of utils/id: a string never returned before
generateId(w) == "g" \o ToString(w.issued + 1)

\* handler.ts 158-166; the identifier is "e" and the number of identifiers
\* issued so far, the registration is left in d.w.registry
registerEventHandler(d, eventType, handler) ==
    [d EXCEPT !.w.issued = @ + 1,
              !.w.registry = @ \cup {[id |-> "e" \o ToString(d.w.issued + 1),
                                      handler |-> handler, eventType |-> eventType]}]

\* the identifier that the last registerEventHandler returned
LastEventId(w) == "e" \o ToString(w.issued)

\* handler.ts 169-174
removeEventHandler(d, eventId) ==
    [d EXCEPT !.w.registry = { h \in @ : h.id # eventId }]

\* render.ts 363-366: element.id = generateId() when the element has no id
EnsureId(d) ==
    IF d.n.nk # "el" THEN [d EXCEPT !.w = Throw(@)]
    ELSE IF HasProp(d.n.attrs, "id") /\ PropValue(d.n.attrs, "id") # "" THEN d
    ELSE setAttribute([d EXCEPT !.w.issued = @ + 1], "id", generateId(d.w))

\* render.ts 367-369, after registerEventHandler left d
SetEventId(d, key) ==
    IF d.w.thrown THEN d ELSE setAttribute(d, EventIdKey(key), LastEventId(d.w))

\* render.ts 360-383 (the model's props are event handlers, plain and
\* boolean attributes; "undefined" stands for undefined, and it and the
\* empty string are the falsy values)
applySingleProp(d, key, value) ==
    IF key \in EventKeys
    THEN SetEventId(registerEventHandler(EnsureId(d), EventType(key), value), key)
    ELSE IF key \in {"checked", "selected", "disabled"}
    THEN IF value # "" /\ value # "undefined"
         THEN setAttribute(d, key, key)
         ELSE removeAttribute(d, key)
    ELSE setAttribute(d, key, value)

\* render.ts 386-390: the props from the j-th on
RECURSIVE applyProps(_, _, _)
applyProps(d, props, j) ==
    IF j > Len(props) \/ d.w.thrown THEN d
    ELSE applyProps(applySingleProp(d, props[j].k, props[j].v), props, j + 1)

RECURSIVE createElement(_, _)
RECURSIVE appendChildren(_, _, _)

\* render.ts 393-407
appendChild(d, child) ==
    IF child.vk = "null" THEN d
    ELSE IF child.vk = "text" THEN appendNode(d.n, createTextNode(d.w, child.text))
    ELSE appendNode(d.n, createElement(d.w, child))

\* render.ts 694: the children from the j-th on
appendChildren(d, children, j) ==
    IF j > Len(children) THEN d
    ELSE appendChildren(appendChild(d, children[j]), children, j + 1)

\* render.ts 691-696
createElement(w, vElement) ==
    appendChildren(
        applyProps([w |-> Mut([w EXCEPT !.nextId = @ + 1], "create", w.nextId),
                    n |-> ElNode(w.nextId, vElement.tag)],
                   vElement.props, 1),
        vElement.children, 1)

\* render.ts 489-497
createDomChild(w, child) ==
    IF child.vk = "text" THEN createTextNode(w, child.text)
    ELSE IF child.vk = "el" THEN createElement(w, child)
    ELSE createTextNode(w, "")

\* render.ts 455-461 and 475-481: the handler that the node's dataset names
\* is removed from the registry, and the dataset entry deleted if asked
ReleaseEvent(d, key, deleteId) ==
    IF d.n.nk # "el" THEN [d EXCEPT !.w = Throw(@)]
    ELSE IF PropValue(d.n.attrs, EventIdKey(key)) \in {"undefined", ""} THEN d
    ELSE IF deleteId
    THEN removeAttribute(removeEventHandler(d, PropValue(d.n.attrs, EventIdKey(key))),
                         EventIdKey(key))
    ELSE removeEventHandler(d, PropValue(d.n.attrs, EventIdKey(key)))

\* render.ts 451-466: the old props from the j-th on
RECURSIVE RemoveOldProps(_, _, _, _)
RemoveOldProps(d, oldProps, newProps, j) ==
    IF j > Len(oldProps) \/ d.w.thrown THEN d
    ELSE RemoveOldProps(IF ~HasProp(newProps, oldProps[j].k)
                        THEN IF oldProps[j].k \in EventKeys
                             THEN ReleaseEvent(d, oldProps[j].k, TRUE)
                             ELSE removeAttribute(d, oldProps[j].k)
                        ELSE d,
                        oldProps, newProps, j + 1)

\* render.ts 468-485: the new props from the j-th on
RECURSIVE ApplyNewProps(_, _, _, _)
ApplyNewProps(d, oldProps, newProps, j) ==
    IF j > Len(newProps) \/ d.w.thrown THEN d
    ELSE ApplyNewProps(IF newProps[j].v # PropValue(oldProps, newProps[j].k)
                       THEN applySingleProp(
                                IF newProps[j].k \in EventKeys
                                   /\ PropValue(oldProps, newProps[j].k) \notin {"undefined", ""}
                                THEN ReleaseEvent(d, newProps[j].k, FALSE)
                                ELSE d,
                                newProps[j].k, newProps[j].v)
                       ELSE d,
                       oldProps, newProps, j + 1)

\* render.ts 449-486
diffProps(d, oldProps, newProps) ==
    ApplyNewProps(RemoveOldProps(d, oldProps, newProps, 1), oldProps, newProps, 1)

\* the child of parent that is the node object `node`, as it is now
Current(parent, node) ==
    IF IsChild(parent, node)
    THEN parent.kids[CHOOSE j \in 1..Len(parent.kids) : parent.kids[j].nid = node.nid]
    ELSE node

\* render.ts 521-534: the keyed children with their key and index, and the
\* others with their index
extractKeyedChildren(children) ==
    LET isKeyed(c) == c.vk = "el" /\ HasProp(c.props, "key")
        all == [j \in 1..Len(children) |->
                   [key |-> IF isKeyed(children[j]) THEN PropValue(children[j].props, "key")
                            ELSE "",
                    keyed |-> isKeyed(children[j]),
                    child |-> children[j], index |-> j - 1]]
    IN [withKeys |-> SelectSeq(all, LAMBDA e : e.keyed),
        withoutKeys |-> SelectSeq(all, LAMBDA e : ~e.keyed)]

\* oldKeyMap.get(key): the last old child with that key, NoItem when none
NoItem == [key |-> "", keyed |-> FALSE, child |-> VNull, index |-> -1]

OldItem(oldKeyed, key) ==
    LET hits == { j \in 1..Len(oldKeyed.withKeys) : oldKeyed.withKeys[j].key = key }
    IN IF hits = {} THEN NoItem
       ELSE oldKeyed.withKeys[CHOOSE j \in hits : \A h \in hits : h <= j]

\* a reconciler that reuses no live node
Reused_Never(oldItem, usedDomNodes) == FALSE

\* render.ts 556
Reused(oldItem, usedDomNodes) == oldItem.index # -1 /\ oldItem.index \notin usedDomNodes

\* render.ts 437-439: c.n takes the place of domNode under its parent
ReplaceNode(domNode, c) ==
    IF domNode.nk = "none" THEN [w |-> Throw(c.w), n |-> domNode]
    ELSE [w |-> Mut(Mut(c.w, "remove", domNode.nid), "insert", c.n.nid), n |-> c.n]

\* the parent after its child domChild was patched to, or replaced by, r.n
Patched(parent, domChild, r) ==
    [w |-> r.w, n |-> IF domChild.nk = "none" THEN parent ELSE Put(parent, domChild, r.n)]

\* render.ts 573-578 and 586-591: the node c.n goes to position insertionIndex
InsertAt(parent, c, insertionIndex) ==
    IF parent.nk = "none" THEN [w |-> Throw(c.w), n |-> parent]
    ELSE IF insertionIndex >= Len(parent.kids) THEN appendNode(parent, c)
    ELSE insertBefore(parent, c, NodeAt(parent.kids, insertionIndex))

\* render.ts 566-568, after updateChild left u
MoveTo(u, domChild, domIndex, insertionIndex) ==
    IF u.w.thrown \/ domIndex = insertionIndex THEN u
    ELSE insertBefore(u.n, [w |-> u.w, n |-> Current(u.n, domChild)],
                      NodeAt(u.n.kids, insertionIndex))

RECURSIVE diffAndPatch(_, _, _)
RECURSIVE updateChild(_, _, _, _)
RECURSIVE diffChildrenByIndex(_, _, _, _)
RECURSIVE KeyedLoop(_, _, _, _, _, _)
RECURSIVE diffChildren(_, _, _)

\* render.ts 433-446.  The result's n is the node that is afterwards where
\* d.n was: d.n itself, patched, or the element that replaced it.
diffAndPatch(d, oldVNode, newVNode) ==
    IF oldVNode.tag # newVNode.tag
    THEN ReplaceNode(d.n, createElement(d.w, newVNode))
    ELSE diffChildren(diffProps(d, oldVNode.props, newVNode.props),
                      oldVNode.children, newVNode.children)

\* render.ts 500-518, for the parent d.n
updateChild(d, domChild, oldChild, newChild) ==
    IF oldChild.vk = "text" /\ newChild.vk = "text"
    THEN IF oldChild.text # newChild.text THEN setTextContent(d, domChild, newChild.text)
         ELSE d
    ELSE IF oldChild.vk = "el" /\ newChild.vk = "el"
    THEN Patched(d.n, domChild, diffAndPatch([w |-> d.w, n |-> domChild], oldChild, newChild))
    ELSE replaceChild(d.n, createDomChild(d.w, newChild), domChild)

\* render.ts 607-620: position i
DiffChildAt(d, oldChild, newChild, domChild) ==
    IF newChild.vk = "null"
    THEN IF domChild.nk # "none" THEN removeChild(d, domChild) ELSE d
    ELSE IF oldChild.vk = "null"
    THEN appendNode(d.n, createDomChild(d.w, newChild))
    ELSE updateChild(d, domChild, oldChild, newChild)

\* render.ts 603-622, from index i
diffChildrenByIndex(d, oldChildren, newChildren, i) ==
    IF ~(i < Max(Len(oldChildren), Len(newChildren))) \/ d.w.thrown THEN d
    ELSE IF d.n.nk = "none" THEN [d EXCEPT !.w = Throw(@)]
    ELSE diffChildrenByIndex(
             DiffChildAt(d,
                         IF i < Len(oldChildren) THEN oldChildren[i + 1] ELSE VNull,
                         IF i < Len(newChildren) THEN newChildren[i + 1] ELSE VNull,
                         NodeAt(d.n.kids, i)),
             oldChildren, newChildren, i + 1)

\* render.ts 554-579: one new keyed child
KeyedStep(d, oldItem, newChild, usedDomNodes, insertionIndex) ==
    IF d.n.nk = "none" THEN [d EXCEPT !.w = Throw(@)]
    ELSE IF Reused(oldItem, usedDomNodes)
    THEN MoveTo(IF oldItem.child.vk = "el" /\ newChild.vk = "el"
                THEN updateChild(d, NodeAt(d.n.kids, oldItem.index), oldItem.child, newChild)
                ELSE d,
                NodeAt(d.n.kids, oldItem.index), oldItem.index, insertionIndex)
    ELSE InsertAt(d.n, createDomChild(d.w, newChild), insertionIndex)

\* render.ts 553-582: the new keyed children from the j-th on; insertionIndex
\* is j - 1
KeyedLoop(d, oldKeyed, newKeyed, j, usedDomNodes, insertionIndex) ==
    IF j > Len(newKeyed.withKeys) \/ d.w.thrown THEN d
    ELSE KeyedLoop(
             KeyedStep(d, OldItem(oldKeyed, newKeyed.withKeys[j].key),
                       newKeyed.withKeys[j].child, usedDomNodes, insertionIndex),
             oldKeyed, newKeyed, j + 1,
             IF Reused(OldItem(oldKeyed, newKeyed.withKeys[j].key), usedDomNodes)
             THEN usedDomNodes \cup {OldItem(oldKeyed, newKeyed.withKeys[j].key).index}
             ELSE usedDomNodes,
             insertionIndex + 1)

\* render.ts 585-593: the new children without key from the j-th on
RECURSIVE UnkeyedLoop(_, _, _, _)
UnkeyedLoop(d, newKeyed, j, insertionIndex) ==
    IF j > Len(newKeyed.withoutKeys) \/ d.w.thrown THEN d
    ELSE UnkeyedLoop(InsertAt(d.n, createDomChild(d.w, newKeyed.withoutKeys[j].child),
                              insertionIndex),
                     newKeyed, j + 1, insertionIndex + 1)

\* render.ts 596-599
RECURSIVE RemoveExcess(_, _)
RemoveExcess(d, insertionIndex) ==
    IF d.w.thrown THEN d
    ELSE IF d.n.nk = "none" THEN [d EXCEPT !.w = Throw(@)]
    ELSE IF ~(Len(d.n.kids) > insertionIndex) THEN d
    ELSE RemoveExcess(removeChild(d, d.n.kids[Len(d.n.kids)]), insertionIndex)

\* render.ts 537-600; insertionIndex counts the new children placed so far
diffChildrenWithKeys(d, oldKeyed, newKeyed) ==
    RemoveExcess(
        UnkeyedLoop(KeyedLoop(d, oldKeyed, newKeyed, 1, {}, 0),
                    newKeyed, 1, Len(newKeyed.withKeys)),
        Len(newKeyed.withKeys) + Len(newKeyed.withoutKeys))

\* render.ts 625-637
diffChildren(d, oldChildren, newChildren) ==
    IF d.w.thrown THEN d
    ELSE IF /\ Len(extractKeyedChildren(oldChildren).withKeys) = 0
            /\ Len(extractKeyedChildren(newChildren).withKeys) = 0
    THEN diffChildrenByIndex(d, oldChildren, newChildren, 0)
    ELSE diffChildrenWithKeys(d, extractKeyedChildren(oldChildren),
                              extractKeyedChildren(newChildren))

\* -------------------------------------------------------------- rendering

\* the largest number of children of an element of the component's output
MaxKids == 2

\* the largest number of render and rerender calls
MaxRenders == 2

\* the largest number of children of a list whose children all carry a key
MaxKeyed == 3

\* the children the component's output is made of
Kids ==
    { VText("x"), VText("y"), VNull,
      VEl("li", <<E("key", "a")>>, <<>>),
      VEl("li", <<E("key", "b")>>, <<>>),
      VEl("li", <<E("key", "a"), E("class", "c")>>, <<>>),
      VEl("p", <<E("key", "a")>>, <<>>),
      VEl("span", <<>>, <<>>) }

SeqsUpTo(S, n) == UNION { [1..k -> S] : k \in 0..n }

\* the children of the lists whose children all carry a key
KeyedKids ==
    { VEl("li", <<E("key", "a")>>, <<>>),
      VEl("li", <<E("key", "b")>>, <<>>),
      VEl("li", <<E("key", "c")>>, <<>>),
      VEl("li", <<E("key", "a"), E("class", "c")>>, <<>>) }

\* the lists of children with distinct keys
KeyedLists ==
    { children \in SeqsUpTo(KeyedKids, MaxKeyed) :
        \A i, j \in 1..Len(children) :
            i # j => PropValue(children[i].props, "key") # PropValue(children[j].props, "key") }

\* what a call of the component function can return
Trees ==
    { VEl("ul", <<>>, children) : children \in SeqsUpTo(Kids, MaxKids) \cup KeyedLists }
    \cup { VEl("ol", <<>>, <<>>), VEl("ul", <<E("class", "c")>>, <<>>) }

\* the largest number of props of an element of PropTrees
MaxProps == 2

\* the props the component gives an element: plain attributes (class, id),
\* a boolean attribute and a click handler; "undefined" is undefined
PropEntries ==
    { E("class", "c"), E("class", "d"), E("class", "undefined"),
      E("disabled", "true"), E("disabled", ""),
      E("onClick", "h1"), E("onClick", "h2"), E("id", "x") }

\* the objects of at most MaxProps of those props, in insertion order
PropBags ==
    { props \in SeqsUpTo(PropEntries, MaxProps) :
        \A i, j \in 1..Len(props) : i # j => props[i].k # props[j].k }

\* keyed children with and without a click handler
HandlerKids ==
    { VEl("li", <<E("key", "a"), E("onClick", "h1")>>, <<>>),
      VEl("li", <<E("key", "a"), E("onClick", "h2")>>, <<>>),
      VEl("li", <<E("key", "b")>>, <<>>) }

\* what the component returns in the runs about props and handlers
PropTrees ==
    { VEl("div", props, <<>>) : props \in PropBags }
    \cup { VEl("div", <<>>, children) : children \in SeqsUpTo(HandlerKids, 2) }

VARIABLES
    container,        \* host: the container element with the live tree under it
    lastVirtualDOM,   \* render.ts 325, VNull for null
    lastRender,       \* render.ts 323: whether it is set (and rerender subscribed)
    isRerendering,    \* render.ts 329
    eventRegistry,    \* handler.ts 39: the registered handlers, and how many
                      \*   identifiers were issued so far
    renders,          \* history: the number of render and rerender calls so far
    staticRenders,    \* history: the number of render calls with a static element
    lastApplied,      \* history: the tree the last completed render call applied
    lastRecon         \* history: what the last render or rerender call did

renderVars == <<container, lastVirtualDOM, lastRender, isRerendering, eventRegistry,
               renders, staticRenders, lastApplied, lastRecon>>

\* the node identities of a tree renumbered in document order from i on
RECURSIVE Renumber(_, _)
RECURSIVE RenumberKids(_, _, _)
Renumber(node, i) ==
    [n |-> [node EXCEPT !.nid = i, !.kids = RenumberKids(node.kids, 1, i + 1).kids],
     next |-> RenumberKids(node.kids, 1, i + 1).next]

RenumberKids(kids, j, i) ==
    IF j > Len(kids) THEN [kids |-> <<>>, next |-> i]
    ELSE [kids |-> <<Renumber(kids[j], i).n>>
                   \o RenumberKids(kids, j + 1, Renumber(kids[j], i).next).kids,
          next |-> RenumberKids(kids, j + 1, Renumber(kids[j], i).next).next]

\* the values the application gives to the id attribute
UserIds == {"x"}

\* an attribute as two materializations of one virtual node share it: the
\* identifiers that generateId and registerEventHandler issue differ from
\* one materialization to the next
AttrShape(e) ==
    IF e.k = "id" /\ e.v \notin UserIds THEN E("id", "generated")
    ELSE IF e.k \in { EventIdKey(key) : key \in EventKeys } THEN E(e.k, "registered")
    ELSE e

\* the structure of a live tree: tags, attributes, texts and ordered children
RECURSIVE Shape(_)
Shape(node) ==
    [nk |-> node.nk, tag |-> node.tag, text |-> node.text,
     attrs |-> { AttrShape(node.attrs[j]) : j \in 1..Len(node.attrs) },
     kids |-> [j \in 1..Len(node.kids) |-> Shape(node.kids[j])]]

\* a fresh materialization of a virtual element
Materialize(vElement) == createElement(World0, vElement).n

\* container.firstElementChild, NoNode for null
firstElementChild(c) ==
    IF \E j \in 1..Len(c.kids) : c.kids[j].nk = "el"
    THEN c.kids[CHOOSE j \in 1..Len(c.kids) :
                    c.kids[j].nk = "el" /\ \A h \in 1..(j - 1) : c.kids[h].nk # "el"]
    ELSE NoNode

\* the document when a call starts: fresh identities follow those in use
WorldOf(c) ==
    [World0 EXCEPT !.nextId = Renumber(c, 1).next,
                   !.registry = eventRegistry.handlers, !.issued = eventRegistry.issued]

\* render.ts 642-646, for the container d.n
renderElement(d, element) ==
    appendNode([d.n EXCEPT !.kids = <<>>],
               createElement(Mut(d.w, "clear", d.n.nid), element))

\* render.ts 416-425 and 657-668: patch the existing element, or render afresh
PatchOrRender(d, last, current) ==
    IF last.vk # "null" /\ firstElementChild(d.n).nk # "none"
    THEN [r |-> Patched(d.n, firstElementChild(d.n),
                        diffAndPatch([w |-> d.w, n |-> firstElementChild(d.n)],
                                     last, current)),
          diffed |-> TRUE]
    ELSE [r |-> renderElement(d, current), diffed |-> FALSE]

NoRecon ==
    [op |-> "none", diffed |-> FALSE, consistent |-> FALSE, thrown |-> FALSE,
     componentThrew |-> FALSE, applied |-> VNull,
     old |-> VNull, new |-> VNull, before |-> NoNode, after |-> NoNode,
     muts |-> <<>>, fresh |-> 1]

\* what a call that left p did: whether it patched, whether the live tree
\* was then the materialization of lastVirtualDOM, whether it threw, the
\* virtual tree it had (old) and the one the component returned (new), the
\* container as it was (before) and as the call left it (after, with the
\* node identities of `before`; the nodes the call created are numbered
\* from `fresh` on), and the operations it made on the document, in order
Recon(name, v, p) ==
    [op |-> name, diffed |-> p.diffed,
     consistent |-> /\ lastVirtualDOM.vk # "null"
                    /\ Shape(firstElementChild(container)) = Shape(Materialize(lastVirtualDOM)),
     thrown |-> p.r.w.thrown,
     componentThrew |-> FALSE, applied |-> lastApplied,
     old |-> lastVirtualDOM, new |-> v, before |-> container, after |-> p.r.n,
     muts |-> p.r.w.muts, fresh |-> WorldOf(container).nextId]

RenderInit ==
    /\ container = ElNode(1, "body")
    /\ lastVirtualDOM = VNull
    /\ lastRender = FALSE
    /\ isRerendering = FALSE
    /\ eventRegistry = [handlers |-> {}, issued |-> 0]
    /\ renders = 0
    /\ staticRenders = 0
    /\ lastApplied = VNull
    /\ lastRecon = NoRecon

\* render.ts 655-687, after the patch or the fresh render left p: an
\* exception leaves the function before lastVirtualDOM and lastRender are set
RenderDone(v, p) ==
    /\ container' = Renumber(p.r.n, 1).n
    /\ lastVirtualDOM' = IF p.r.w.thrown THEN lastVirtualDOM ELSE v
    /\ lastRender' = IF p.r.w.thrown THEN lastRender ELSE TRUE
    /\ lastRecon' = Recon("render", v, p)
    /\ lastApplied' = IF p.r.w.thrown THEN lastApplied ELSE v
    /\ eventRegistry' = [handlers |-> p.r.w.registry, issued |-> p.r.w.issued]
    /\ UNCHANGED <<isRerendering, staticRenders>>

\* render.ts 651-688 with a component function whose call returns v
Render(v) ==
    /\ renders < MaxRenders
    /\ renders' = renders + 1
    /\ RenderDone(v, PatchOrRender([w |-> WorldOf(container), n |-> container],
                                   lastVirtualDOM, v))

\* render.ts 412-428, after the patch or the fresh render left p: an
\* exception leaves the function with isRerendering still true
RerenderDone(v, p) ==
    /\ container' = Renumber(p.r.n, 1).n
    /\ lastVirtualDOM' = IF p.r.w.thrown THEN lastVirtualDOM ELSE v
    /\ isRerendering' = p.r.w.thrown
    /\ lastRecon' = Recon("rerender", v, p)
    /\ lastApplied' = IF p.r.w.thrown THEN lastApplied ELSE v
    /\ eventRegistry' = [handlers |-> p.r.w.registry, issued |-> p.r.w.issued]
    /\ UNCHANGED staticRenders

\* render.ts 410-430, called by the store listener that render subscribed;
\* the component function returns v
Rerender(v) ==
    /\ renders < MaxRenders
    /\ renders' = renders + 1
    /\ lastRender
    /\ IF isRerendering
       THEN /\ lastRecon' = [NoRecon EXCEPT !.op = "rerender"]
            /\ UNCHANGED <<container, lastVirtualDOM, isRerendering, eventRegistry,
                           staticRenders, lastApplied>>
       ELSE RerenderDone(v, PatchOrRender([w |-> WorldOf(container), n |-> container],
                                          lastVirtualDOM, v))
    /\ UNCHANGED lastRender

\* the largest number of render calls with a static element
MaxStatic == 1

\* the trees of a page whose children are reconciled by index, none null
PageTrees ==
    { VEl("ul", <<>>, children) : children \in SeqsUpTo({VText("x"), VText("y")}, MaxKids) }
    \cup { VEl("ul", <<>>, <<VEl("span", <<>>, <<>>)>>), VEl("ol", <<>>, <<>>) }

\* render.ts 651-688 with a static element: rendered afresh (line 669), and
\* neither lastVirtualDOM (672-674) nor lastRender (677-687) is assigned
RenderStatic(v) ==
    /\ staticRenders < MaxStatic
    /\ staticRenders' = staticRenders + 1
    /\ LET p == [r |-> renderElement([w |-> WorldOf(container), n |-> container], v),
                 diffed |-> FALSE]
       IN /\ container' = Renumber(p.r.n, 1).n
          /\ lastRecon' = Recon("renderStatic", v, p)
          /\ lastApplied' = v
          /\ eventRegistry' = [handlers |-> p.r.w.registry, issued |-> p.r.w.issued]
    /\ UNCHANGED <<lastVirtualDOM, lastRender, isRerendering, renders>>

\* what a call whose component function threw did: nothing to the document
Aborted(name) ==
    [NoRecon EXCEPT !.op = name, !.thrown = TRUE, !.componentThrew = TRUE,
                    !.applied = lastApplied, !.old = lastVirtualDOM,
                    !.before = container, !.after = container,
                    !.fresh = WorldOf(container).nextId]

\* render.ts 651-688 with a component function that throws: the call at
\* line 657 is the first statement and nothing encloses it
RenderThrowing ==
    /\ renders < MaxRenders
    /\ renders' = renders + 1
    /\ lastRecon' = Aborted("render")
    /\ UNCHANGED <<container, lastVirtualDOM, lastRender, isRerendering, eventRegistry,
                   staticRenders, lastApplied>>

\* render.ts 410-430 with a component function that throws: the call at
\* line 414 comes after isRerendering = true (412) and nothing encloses it
RerenderThrowing ==
    /\ renders < MaxRenders
    /\ renders' = renders + 1
    /\ lastRender
    /\ ~isRerendering
    /\ isRerendering' = TRUE
    /\ lastRecon' = Aborted("rerender")
    /\ UNCHANGED <<container, lastVirtualDOM, lastRender, eventRegistry,
                   staticRenders, lastApplied>>

\* ----------------------------------------------------------- the scheduler

VARIABLES
    tasks,            \* Scheduler.tasks: records [id, repeat, timeoutId], 0 for null
    nextId,           \* Scheduler.nextId
    paused,           \* Scheduler.paused
    timers,           \* host: the timeouts and intervals still set, [handle, id, interval]
    nextTimer,        \* host: the next handle setTimeout or setInterval returns
    executions,       \* history: the task functions run so far, in order
    cancelled,        \* history: the ids given to cancel
    addedPaused       \* history: the ids of the tasks created while paused

schedVars == <<tasks, nextId, paused, timers, nextTimer, executions, cancelled, addedPaused>>

\* the largest number of tasks created
MaxTasks == 2

\* the largest number of task functions run
MaxRuns == 2

\* the largest number of timeouts and intervals set
MaxTimers == 4

SchedulerInit ==
    /\ tasks = {}
    /\ nextId = 0
    /\ paused = FALSE
    /\ timers = {}
    /\ nextTimer = 1
    /\ executions = <<>>
    /\ cancelled = {}
    /\ addedPaused = {}

\* time.ts 62-74 and 76-88: delay (repeating FALSE) sets a timeout that calls
\* executeTask(id), repeat (repeating TRUE) an interval that calls fn;
\* neither reads this.paused
AddTask(repeating) ==
    /\ nextId < MaxTasks
    /\ nextTimer <= MaxTimers
    /\ nextId' = nextId + 1
    /\ tasks' = tasks \cup {[id |-> nextId, repeat |-> repeating, timeoutId |-> nextTimer]}
    /\ timers' = timers \cup {[handle |-> nextTimer, id |-> nextId, interval |-> repeating]}
    /\ nextTimer' = nextTimer + 1
    /\ addedPaused' = IF paused THEN addedPaused \cup {nextId} ELSE addedPaused
    /\ UNCHANGED <<paused, executions, cancelled>>

delay == AddTask(FALSE)

repeat == AddTask(TRUE)

\* time.ts 90-107
pause ==
    /\ ~paused
    /\ paused' = TRUE
    /\ timers' = { tm \in timers : \A task \in tasks : task.timeoutId # tm.handle }
    /\ tasks' = { [task EXCEPT !.timeoutId = 0] : task \in tasks }
    /\ UNCHANGED <<nextId, nextTimer, executions, cancelled, addedPaused>>

\* the handle the host gives the task in resume's forEach, in insertion order
ResumedHandle(task) ==
    nextTimer + Cardinality({ u \in tasks : u.timeoutId = 0 /\ u.id < task.id })

\* time.ts 109-124
resume ==
    /\ paused
    /\ nextTimer + Cardinality({ u \in tasks : u.timeoutId = 0 }) <= MaxTimers + 1
    /\ paused' = FALSE
    /\ tasks' = { IF task.timeoutId # 0 THEN task
                  ELSE [task EXCEPT !.timeoutId = ResumedHandle(task)] : task \in tasks }
    /\ timers' = timers \cup
                     { [handle |-> ResumedHandle(task), id |-> task.id, interval |-> task.repeat] :
                           task \in { u \in tasks : u.timeoutId = 0 } }
    /\ nextTimer' = nextTimer + Cardinality({ u \in tasks : u.timeoutId = 0 })
    /\ UNCHANGED <<nextId, executions, cancelled, addedPaused>>

\* time.ts 126-132
cancel(id) ==
    /\ cancelled' = cancelled \cup {id}
    /\ timers' = { tm \in timers :
                       \A task \in tasks : task.id = id => task.timeoutId # tm.handle }
    /\ tasks' = { task \in tasks : task.id # id }
    /\ UNCHANGED <<nextId, paused, nextTimer, executions, addedPaused>>

\* the function of task id runs
Run(id) ==
    Append(executions, [id |-> id, paused |-> paused, cancelled |-> id \in cancelled,
                        repeat |-> \E task \in tasks : task.id = id /\ task.repeat,
                        addedPaused |-> id \in addedPaused])

\* the host fires a timeout, which calls executeTask(id) (time.ts 137-143),
\* or an interval, which calls the task function
Timeout(tm) ==
    /\ tm \in timers
    /\ Len(executions) < MaxRuns
    /\ IF tm.interval
       THEN /\ executions' = Run(tm.id)
            /\ UNCHANGED <<tasks, timers>>
       ELSE /\ timers' = timers \ {tm}
            /\ IF \E task \in tasks : task.id = tm.id /\ ~task.repeat
               THEN /\ executions' = Run(tm.id)
                    /\ tasks' = { task \in tasks : task.id # tm.id }
               ELSE UNCHANGED <<executions, tasks>>
    /\ UNCHANGED <<nextId, paused, nextTimer, cancelled, addedPaused>>

\* ------------------------------------------------------ ReactiveComponent

VARIABLES
    isMounted,        \* ReactiveComponent.isMounted
    subscriptions,    \* ReactiveComponent.subscriptions: what each unsubscribe
                      \*   function was returned for, [path, l]
    compContainer,    \* ReactiveComponent.container: "null", or what it shows
    compProps,            \* ReactiveComponent.props
    mounts,           \* history: the number of mounts that subscribed
    compOps,          \* history: the number of mount / unmount / update calls
    compLast          \* history: what the last call or store change did to it

compVars == <<isMounted, subscriptions, compContainer, compProps, mounts, compOps, compLast>>

\* the largest number of mount / unmount / update calls
MaxCompOps == 3

\* the largest number of mounts that subscribe
MaxMounts == 2

\* statePaths of the component: a.b and k
StatePaths == << <<"a", ".", "b">>, <<"k">> >>

\* the props given to the component; renderFn throws for "bad"
PropsValues == {"q", "bad"}

\* the state changes made while the component exists
ComponentUpdates ==
    { u \in Updates : ~u.fn /\ u.val \in { State(<<E("a", Obj(0, <<E("b", Num(1))>>))>>),
                                           State(<<E("k", Num(1))>>),
                                           State(<<E("k", Num(2))>>) } }

NoCompOp == [op |-> "none", rendered |-> 0, invoked |-> 0, wasMounted |-> FALSE]

ComponentInit ==
    /\ isMounted = FALSE
    /\ subscriptions = <<>>
    /\ compContainer = "null"
    /\ compProps = "p"
    /\ mounts = 0
    /\ compOps = 0
    /\ compLast = NoCompOp

\* store.ts 244-249: the registration subscribeTo(path, listener) makes
subscribeTo(this, path, l) ==
    LET i == PathIndex(this.pathListeners, path)
    IN [this EXCEPT !.pathListeners =
            IF i = 0 THEN Append(@, [path |-> path, ls |-> <<l>>])
            ELSE [@ EXCEPT ![i].ls = Append(@, l)]]

\* component.ts 62-81: one subscribeTo per state path, from path j on
RECURSIVE subscribeToState(_, _, _)
subscribeToState(this, l, j) ==
    IF j > Len(StatePaths) THEN this
    ELSE subscribeToState(subscribeTo(this, StatePaths[j], l), l, j + 1)

\* component.ts 42: subscriptions.forEach(unsub => unsub()), from entry j on
RECURSIVE ReleaseAll(_, _, _)
ReleaseAll(this, subs, j) ==
    IF j > Len(subs) THEN this
    ELSE ReleaseAll(unsubscribeFrom(this, subs[j].path, subs[j].l), subs, j + 1)

\* component.ts 84-94: what the container shows after render() with props p
Rendered(c, p) ==
    IF p = "bad" THEN c ELSE p

\* the listener of the next mount
MountListener == IF mounts = 0 THEN "C1" ELSE "C2"

\* component.ts 27-37
Mount ==
    /\ compOps < MaxCompOps
    /\ compOps' = compOps + 1
    /\ isMounted \/ mounts < MaxMounts
    /\ IF isMounted
       THEN /\ compLast' = [NoCompOp EXCEPT !.op = "mount", !.wasMounted = isMounted]
            /\ UNCHANGED <<isMounted, subscriptions, compContainer, compProps, mounts, storeVars>>
       ELSE /\ isMounted' = TRUE
            /\ mounts' = mounts + 1
            /\ pathListeners' = subscribeToState(Pack, MountListener, 1).pathListeners
            /\ subscriptions' = [j \in 1..Len(StatePaths) |->
                                     [path |-> StatePaths[j], l |-> MountListener]]
            /\ compContainer' = Rendered("", compProps)
            /\ compLast' = [NoCompOp EXCEPT !.op = "mount", !.rendered = 1]
            /\ UNCHANGED <<compProps, state, listeners, pendingUpdate, pendingChanges, rafId,
                           batchOldState, batchNewState, frames, nextHandle,
                           ops, calls, windowCalls, seen, inversions, lastOp>>

\* an unmount that forgets its subscriptions without calling them
Unmount_KeepsSubscriptions ==
    /\ compOps < MaxCompOps
    /\ compOps' = compOps + 1
    /\ compLast' = [NoCompOp EXCEPT !.op = "unmount", !.wasMounted = isMounted]
    /\ IF ~isMounted
       THEN UNCHANGED <<isMounted, subscriptions, compContainer, compProps, mounts, storeVars>>
       ELSE /\ subscriptions' = <<>>
            /\ compContainer' = "null"
            /\ isMounted' = FALSE
            /\ UNCHANGED <<compProps, mounts, storeVars>>

\* component.ts 39-46
Unmount ==
    /\ compOps < MaxCompOps
    /\ compOps' = compOps + 1
    /\ compLast' = [NoCompOp EXCEPT !.op = "unmount", !.wasMounted = isMounted]
    /\ IF ~isMounted
       THEN UNCHANGED <<isMounted, subscriptions, compContainer, compProps, mounts, storeVars>>
       ELSE /\ pathListeners' = ReleaseAll(Pack, subscriptions, 1).pathListeners
            /\ subscriptions' = <<>>
            /\ compContainer' = "null"
            /\ isMounted' = FALSE
            /\ UNCHANGED <<compProps, mounts, state, listeners, pendingUpdate, pendingChanges,
                           rafId, batchOldState, batchNewState, frames, nextHandle,
                           ops, calls, windowCalls, seen, inversions, lastOp>>

\* component.ts 48-55
Update(newProps) ==
    /\ compOps < MaxCompOps
    /\ compOps' = compOps + 1
    /\ IF isMounted /\ compProps # newProps
       THEN /\ compProps' = newProps
            /\ compContainer' = Rendered(compContainer, newProps)
            /\ compLast' = [NoCompOp EXCEPT !.op = "update", !.rendered = 1, !.wasMounted = TRUE]
       ELSE /\ compLast' = [NoCompOp EXCEPT !.op = "update", !.wasMounted = isMounted]
            /\ UNCHANGED <<compProps, compContainer>>
    /\ UNCHANGED <<isMounted, subscriptions, mounts, storeVars>>

\* the invocations of the component's listeners in a notification log
ComponentCalls(log) ==
    Cardinality({ j \in 1..Len(log) : log[j].l \in {"C1", "C2"} })

\* component.ts 66-78: each invocation of a listener of the component by the
\* store operation that ends in lastOp' renders when isMounted (no
\* shouldUpdate is given)
Reacts(name) ==
    /\ compLast' = [op |-> name, invoked |-> ComponentCalls(lastOp'.log),
                    rendered |-> IF isMounted THEN ComponentCalls(lastOp'.log) ELSE 0,
                    wasMounted |-> isMounted]
    /\ compContainer' = IF isMounted /\ ComponentCalls(lastOp'.log) > 0
                        THEN Rendered(compContainer, compProps) ELSE compContainer
    /\ UNCHANGED <<isMounted, subscriptions, compProps, mounts, compOps>>

\* ------------------------------------------------ unsubscribe functions

VARIABLES
    regs,             \* history: the registration each entry of Store.listeners
                      \*   (state) and of each array of Store.pathListeners
                      \*   (paths) was made by, parallel to those arrays
    issued,           \* history: what each unsubscribe function returned so far
                      \*   closes over, [path, l], <<>> being subscribe's
    unsubCalls,       \* history: the number of calls of unsubscribe functions
    lastUnsub         \* history: the last such call and what it removed

unsubVars == <<regs, issued, unsubCalls, lastUnsub>>

\* the largest number of calls of unsubscribe functions
MaxUnsubs == 2

\* the subscriptions made by the application that keeps the functions
KeptSubscriptions ==
    { sub \in Subscriptions : sub.l \in {"L", "T"} /\ sub.path \in {<<>>, <<"k">>} }

NoUnsub == [reg |-> 0, wasRegistered |-> FALSE, removed |-> {}]

UnsubInit ==
    /\ regs = [state |-> <<>>, paths |-> <<>>]
    /\ issued = <<>>
    /\ unsubCalls = 0
    /\ lastUnsub = NoUnsub

\* the registrations in the store
Live(r) ==
    { r.state[j] : j \in 1..Len(r.state) }
    \cup UNION { { r.paths[i].ns[j] : j \in 1..Len(r.paths[i].ns) } : i \in 1..Len(r.paths) }

\* the entries of ns at the positions where `before` holds an entry that
\* `after`, a subsequence of it made by filter or splice, no longer holds
RECURSIVE Kept(_, _, _)
Kept(ns, before, after) ==
    IF before = <<>> THEN <<>>
    ELSE IF after # <<>> /\ Head(before) = Head(after)
         THEN <<Head(ns)>> \o Kept(Tail(ns), Tail(before), Tail(after))
         ELSE Kept(Tail(ns), Tail(before), after)

\* store.ts 235-241 and 244-257, the application keeping the function returned
SubscribeKeeping(path, l) ==
    /\ IF path = <<>> THEN Subscribe(l) ELSE SubscribeTo(path, l)
    /\ issued' = Append(issued, [path |-> path, l |-> l])
    /\ regs' = IF path = <<>>
               THEN [regs EXCEPT !.state = Append(@, Len(issued) + 1)]
               ELSE IF PathIndex(pathListeners, path) = 0
               THEN [regs EXCEPT !.paths = Append(@, [path |-> path, ns |-> <<Len(issued) + 1>>])]
               ELSE [regs EXCEPT !.paths[PathIndex(pathListeners, path)].ns =
                                     Append(@, Len(issued) + 1)]
    /\ UNCHANGED <<unsubCalls, lastUnsub>>

\* the application calls the unsubscribe function of registration n
\* (store.ts 238-240 for subscribe, 250-256 for subscribeTo)
CallUnsubscribe(n) ==
    /\ unsubCalls < MaxUnsubs
    /\ unsubCalls' = unsubCalls + 1
    /\ n \in 1..Len(issued)
    /\ LET t == IF issued[n].path = <<>> THEN unsubscribe(Pack, issued[n].l)
                ELSE unsubscribeFrom(Pack, issued[n].path, issued[n].l)
       IN /\ listeners' = t.listeners
          /\ pathListeners' = t.pathListeners
          /\ regs' = [state |-> Kept(regs.state, listeners, t.listeners),
                      paths |-> [i \in 1..Len(regs.paths) |->
                                    [regs.paths[i] EXCEPT !.ns =
                                        Kept(@, pathListeners[i].ls, t.pathListeners[i].ls)]]]
    /\ lastUnsub' = [reg |-> n, wasRegistered |-> n \in Live(regs),
                     removed |-> Live(regs) \ Live(regs')]
    /\ UNCHANGED <<state, pendingUpdate, pendingChanges, rafId, batchOldState, batchNewState,
                   frames, nextHandle, ops, calls, windowCalls, seen, inversions, lastOp,
                   issued>>

\* ------------------------------------------------------- NetworkClient

VARIABLES
    ws,                     \* the client's current socket, 0 for null
    netState,               \* NetworkClient.state
    reconnectTimer,         \* handle of the last scheduled reconnect, 0 for null
    reconnectCount,
    currentReconnectDelay,
    pingTimer,              \* handle of the ping interval, 0 for null
    autoReconnect,          \* options.autoReconnect !== false
    readyState,             \* host: the readyState of every socket created so far
    closeDue,               \* host: failed sockets whose close event is still to come
    timeouts,               \* host: the pending reconnect timeouts
    intervals,              \* host: the running ping intervals
    netHandles,             \* host: timer handles issued so far
    netLast                 \* history: the last call or callback and what it changed

netVars == <<ws, netState, reconnectTimer, reconnectCount, currentReconnectDelay, pingTimer,
             autoReconnect, readyState, closeDue, timeouts, intervals, netHandles, netLast>>

\* sockets a run creates
MaxSockets == 3

\* timer handles a run issues
MaxHandles == 3

\* the options of the client: reconnectDelay, maxReconnectDelay and
\* reconnectAttempts, in units of the shortest delay
ReconnectDelay == 1

MaxReconnectDelay == 2

ReconnectAttempts == 2

Sockets == 1..MaxSockets

Created == Cardinality({s \in Sockets : readyState[s] # "none"})

NoNetOp == [op |-> "none", socket |-> 0, current |-> 0, changed |-> FALSE]

\* what belongs to the current socket: the state, the ping timer and the
\* reconnect schedule
Belongings == <<netState, pingTimer, reconnectTimer, timeouts, intervals>>

NetCalled(op, s) ==
    netLast' = [op |-> op, socket |-> s, current |-> ws, changed |-> Belongings' # Belongings]

\* network.ts 59-87; no message is sent in these runs, so that the queue
\* flushed by onopen is empty
NetworkInit ==
    /\ ws = 0
    /\ netState = "disconnected"
    /\ reconnectTimer = 0
    /\ reconnectCount = 0
    /\ currentReconnectDelay = ReconnectDelay
    /\ pingTimer = 0
    /\ autoReconnect = TRUE
    /\ readyState = [s \in Sockets |-> "none"]
    /\ closeDue = {}
    /\ timeouts = {}
    /\ intervals = {}
    /\ netHandles = 0
    /\ netLast = NoNetOp

\* network.ts 89-93: the body of connect(), the callbacks being onopen,
\* onclose and onerror below
Connect ==
    IF netState \in {"connected", "connecting"}
    THEN UNCHANGED <<ws, netState, readyState>>
    ELSE /\ Created < MaxSockets
         /\ netState' = "connecting"
         /\ ws' = Created + 1
         /\ readyState' = [readyState EXCEPT ![Created + 1] = "connecting"]

\* network.ts 89-127
connect ==
    /\ Connect
    /\ UNCHANGED <<reconnectTimer, reconnectCount, currentReconnectDelay, pingTimer,
                   autoReconnect, closeDue, timeouts, intervals, netHandles>>
    /\ NetCalled("connect", 0)

\* network.ts 129-141
disconnect ==
    /\ autoReconnect' = FALSE
    /\ timeouts' = {t \in timeouts : t.id # reconnectTimer}
    /\ reconnectTimer' = 0
    /\ intervals' = {i \in intervals : i.id # pingTimer}
    /\ pingTimer' = 0
    /\ readyState' = IF ws # 0 /\ readyState[ws] \in {"connecting", "open"}
                     THEN [readyState EXCEPT ![ws] = "closing"]
                     ELSE readyState
    /\ ws' = 0
    /\ netState' = "disconnected"
    /\ UNCHANGED <<reconnectCount, currentReconnectDelay, closeDue, netHandles>>
    /\ NetCalled("disconnect", 0)

\* network.ts 95-102, 216-224: the host opens socket s
onopen(s) ==
    /\ readyState[s] = "connecting"
    /\ netHandles < MaxHandles
    /\ readyState' = [readyState EXCEPT ![s] = "open"]
    /\ netState' = "connected"
    /\ reconnectCount' = 0
    /\ currentReconnectDelay' = ReconnectDelay
    /\ netHandles' = netHandles + 1
    /\ pingTimer' = netHandles + 1
    /\ intervals' = intervals \cup {[id |-> netHandles + 1, socket |-> s]}
    /\ UNCHANGED <<ws, reconnectTimer, autoReconnect, closeDue, timeouts>>
    /\ NetCalled("onopen", s)

\* network.ts 114-117: the connection of socket s fails; the host fires
\* error and then close, and onErrorCallback runs between the two
onerror(s) ==
    /\ readyState[s] \in {"connecting", "open"}
    /\ readyState' = [readyState EXCEPT ![s] = "closed"]
    /\ closeDue' = closeDue \cup {s}
    /\ netState' = "error"
    /\ UNCHANGED <<ws, reconnectTimer, reconnectCount, currentReconnectDelay, pingTimer,
                   autoReconnect, timeouts, intervals, netHandles>>
    /\ NetCalled("onerror", s)

\* network.ts 104-112, 205-214, 226-231: the close event of socket s, after
\* the peer closed it, after close() or after a failure
onclose(s) ==
    /\ readyState[s] \in {"open", "closing"} \/ s \in closeDue
    /\ readyState' = [readyState EXCEPT ![s] = "closed"]
    /\ closeDue' = closeDue \ {s}
    /\ netState' = "disconnected"
    /\ intervals' = {i \in intervals : i.id # pingTimer}
    /\ pingTimer' = 0
    /\ IF autoReconnect /\ reconnectCount < ReconnectAttempts
       THEN /\ netHandles < MaxHandles
            /\ netHandles' = netHandles + 1
            /\ reconnectTimer' = netHandles + 1
            /\ timeouts' = timeouts \cup {[id |-> netHandles + 1, socket |-> s]}
       ELSE UNCHANGED <<netHandles, reconnectTimer, timeouts>>
    /\ UNCHANGED <<ws, reconnectCount, currentReconnectDelay, autoReconnect>>
    /\ NetCalled("onclose", s)

\* network.ts 208-213: the host runs the reconnect timeout t
ReconnectTimeout(t) ==
    /\ t \in timeouts
    /\ timeouts' = timeouts \ {t}
    /\ reconnectCount' = reconnectCount + 1
    /\ Connect
    /\ currentReconnectDelay' = Min(currentReconnectDelay * 2, MaxReconnectDelay)
    /\ UNCHANGED <<reconnectTimer, pingTimer, autoReconnect, closeDue, intervals, netHandles>>
    /\ NetCalled("timeout", t.socket)

\* ------------------------------------------------------- LazyComponent

VARIABLES
    lazyState,          \* LazyComponent.state
    loadPromise,        \* the in-flight promise, 0 for null
    loadedComponent,    \* whether loadedComponent and memoizedComponent are set
    lazyError,          \* LazyComponent.error
    settled,            \* the outcome of every promise load() created
    attempts,           \* the attempts counter in the closure of each promise
    phase,              \* where the attempt chain of each promise stands
    timeoutIds,         \* host: the promises whose timeout timer is pending
    timedOut,           \* history: the promises whose timeout timer fired
    sinceLoad,          \* history: the promises settled since the last load() call
    lazyLast            \* history: the last load() call and what it returned

lazyVars == <<lazyState, loadPromise, loadedComponent, lazyError, settled, attempts, phase,
              timeoutIds, timedOut, sinceLoad, lazyLast>>

\* promises a run creates
MaxLoads == 2

\* the retries configured with configureLazy (globalConfig.retryAttempts)
RetryAttempts == 1

Promises == 1..MaxLoads

Started == Cardinality({p \in Promises : settled[p] # "none"})

NoLoad == [called |-> FALSE, inflight |-> 0, returned |-> 0]

\* part_002 92-105
LazyInit ==
    /\ lazyState = "idle"
    /\ loadPromise = 0
    /\ loadedComponent = FALSE
    /\ lazyError = "none"
    /\ settled = [p \in Promises |-> "none"]
    /\ attempts = [p \in Promises |-> 0]
    /\ phase = [p \in Promises |-> "none"]
    /\ timeoutIds = {}
    /\ timedOut = {}
    /\ sinceLoad = {}
    /\ lazyLast = NoLoad

\* resolve() and reject() of promise p: the first call settles the promise,
\* a later one does nothing
Settle(p, outcome) ==
    /\ settled' = IF settled[p] = "pending" THEN [settled EXCEPT ![p] = outcome] ELSE settled
    /\ sinceLoad' = IF settled[p] = "pending" THEN sinceLoad \cup {p} ELSE sinceLoad

\* part_002 107-148: load() returns the memoized component, the in-flight
\* promise (-1 stands for the memoized component) or a new promise whose
\* first attempt it starts
load ==
    IF loadedComponent
    THEN /\ lazyLast' = [called |-> TRUE, inflight |-> loadPromise, returned |-> -1]
         /\ sinceLoad' = {}
         /\ UNCHANGED <<lazyState, loadPromise, loadedComponent, lazyError, settled, attempts,
                        phase, timeoutIds, timedOut>>
    ELSE IF loadPromise # 0
    THEN /\ lazyLast' = [called |-> TRUE, inflight |-> loadPromise, returned |-> loadPromise]
         /\ sinceLoad' = {}
         /\ UNCHANGED <<lazyState, loadPromise, loadedComponent, lazyError, settled, attempts,
                        phase, timeoutIds, timedOut>>
    ELSE /\ Started < MaxLoads
         /\ lazyState' = "loading"
         /\ loadPromise' = Started + 1
         /\ settled' = [settled EXCEPT ![Started + 1] = "pending"]
         /\ attempts' = [attempts EXCEPT ![Started + 1] = 1]
         /\ phase' = [phase EXCEPT ![Started + 1] = "loading"]
         /\ timeoutIds' = timeoutIds \cup {Started + 1}
         /\ lazyLast' = [called |-> TRUE, inflight |-> 0, returned |-> Started + 1]
         /\ sinceLoad' = {}
         /\ UNCHANGED <<loadedComponent, lazyError, timedOut>>

\* part_002 116-121: the timeout timer of the running attempt of p fires
TimeoutFires(p) ==
    /\ p \in timeoutIds
    /\ timeoutIds' = timeoutIds \ {p}
    /\ timedOut' = timedOut \cup {p}
    /\ lazyState' = "timeout"
    /\ lazyError' = "timed out"
    /\ loadPromise' = 0
    /\ Settle(p, "rejected")
    /\ UNCHANGED <<loadedComponent, attempts, phase, lazyLast>>

\* part_002 123-132: the loader called by the running attempt of p resolves
LoaderResolves(p) ==
    /\ phase[p] = "loading"
    /\ timeoutIds' = timeoutIds \ {p}
    /\ loadedComponent' = TRUE
    /\ lazyState' = "loaded"
    /\ loadPromise' = 0
    /\ Settle(p, "resolved")
    /\ phase' = [phase EXCEPT ![p] = "done"]
    /\ UNCHANGED <<lazyError, attempts, timedOut, lazyLast>>

\* part_002 133-143: the loader called by the running attempt of p rejects
LoaderRejects(p) ==
    /\ phase[p] = "loading"
    /\ timeoutIds' = timeoutIds \ {p}
    /\ IF attempts[p] < RetryAttempts + 1
       THEN /\ phase' = [phase EXCEPT ![p] = "retrying"]
            /\ UNCHANGED <<lazyState, lazyError, loadPromise, settled, sinceLoad>>
       ELSE /\ lazyState' = "error"
            /\ lazyError' = "loader"
            /\ loadPromise' = 0
            /\ Settle(p, "rejected")
            /\ phase' = [phase EXCEPT ![p] = "done"]
    /\ UNCHANGED <<loadedComponent, attempts, timedOut, lazyLast>>

\* part_002 114-122, 136: the retry timer of p fires and attemptLoad runs again
RetryFires(p) ==
    /\ phase[p] = "retrying"
    /\ attempts' = [attempts EXCEPT ![p] = @ + 1]
    /\ timeoutIds' = timeoutIds \cup {p}
    /\ phase' = [phase EXCEPT ![p] = "loading"]
    /\ UNCHANGED <<lazyState, loadPromise, loadedComponent, lazyError, settled, timedOut,
                   sinceLoad, lazyLast>>

\* ------------------------------------------------------- reading a path

VARIABLES
    lookup            \* history: the last getValueByPath call and what it returned

\* the snapshots a store is constructed with for the lookups
Snapshots ==
    { State(<<>>),
      State(<<E("a", Null)>>),
      State(<<E("a", Num(1))>>),
      State(<<E("a", Obj(0, <<E("b", Num(1))>>))>>),
      State(<<E("a", Obj(0, <<E("b", Null)>>))>>),
      State(<<E("a", Arr(0, <<Num(1), Num(2)>>))>>),
      State(<<E("a", Arr(0, <<Arr(0, <<Num(1)>>)>>))>>) }

\* the path strings the application asks for, as sequences of characters
LookupPaths ==
    { <<>>, <<"a">>, <<"k">>,
      <<"a", ".", "b">>, <<"k", ".", "b">>, <<"a", ".", "b", ".", "c">>,
      <<"a", "[", "0", "]">>, <<"a", "[", "1", "]">>, <<"a", "[", "2", "]">>,
      <<"a", "[", "0", "]", "[", "0", "]">>, <<"a", "[", "1", "]", "[", "0", "]">>,
      <<"a", "[", "0", "]", ".", "b">>, <<"k", "[", "0", "]">>,
      <<"a", "[", "1">>, <<"a", "[">>, <<"a", ".", "b", "[", "0">>,
      <<"a", "[", "x", "]">>, <<"a", "[", "]">>, <<"a", "[", "0", "]", "[", "x", "]">>,
      <<"[", "0">>, <<"[", "x", "]">> }

NoLookup == [path |-> <<>>, result |-> Undef, done |-> FALSE]

LookupInit == lookup = NoLookup

\* store.ts 30-32
getValueByPath(path) ==
    /\ lookup' = [path |-> path, result |-> getValueByPathAndObject(state, path), done |-> TRUE]
    /\ UNCHANGED <<storeVars, renderVars, schedVars, compVars, unsubVars, netVars, lazyVars>>

LookupNext ==
    \E path \in LookupPaths : getValueByPath(path)

vars == <<storeVars, renderVars, schedVars, compVars, unsubVars, netVars, lazyVars, lookup>>

exceptStore == <<renderVars, schedVars, compVars, unsubVars, netVars, lazyVars, lookup>>

exceptRender == <<storeVars, schedVars, compVars, unsubVars, netVars, lazyVars, lookup>>

exceptScheduler == <<storeVars, renderVars, compVars, unsubVars, netVars, lazyVars, lookup>>

exceptComponent == <<renderVars, schedVars, unsubVars, netVars, lazyVars, lookup>>

exceptUnsub == <<renderVars, schedVars, compVars, netVars, lazyVars, lookup>>

exceptNetwork == <<storeVars, renderVars, schedVars, compVars, unsubVars, lazyVars, lookup>>

exceptLazy == <<storeVars, renderVars, schedVars, compVars, unsubVars, netVars, lookup>>

RenderNext ==
    \/ \E v \in Trees : Render(v) /\ UNCHANGED exceptRender
    \/ \E v \in Trees : Rerender(v) /\ UNCHANGED exceptRender

StoreNext ==
    \/ \E s \in Subscriptions : s.path = <<>> /\ Subscribe(s.l) /\ UNCHANGED exceptStore
    \/ \E s \in Subscriptions : s.path # <<>> /\ SubscribeTo(s.path, s.l) /\ UNCHANGED exceptStore
    \/ \E u \in Updates : SetState(u) /\ UNCHANGED exceptStore
    \/ \E u \in Updates : SetBatchedState(u) /\ UNCHANGED exceptStore
    \/ Frame /\ UNCHANGED exceptStore
    \/ FlushSync /\ UNCHANGED exceptStore

\* the renders of a component whose elements carry props and handlers
PropsNext ==
    \/ \E v \in PropTrees : Render(v) /\ UNCHANGED exceptRender
    \/ \E v \in PropTrees : Rerender(v) /\ UNCHANGED exceptRender

\* the render calls of an application: with a component function that
\* returns a tree or throws, or with a static element, and the re-renders
CallsNext ==
    \/ \E v \in PageTrees : Render(v) /\ UNCHANGED exceptRender
    \/ \E v \in PageTrees : Rerender(v) /\ UNCHANGED exceptRender
    \/ \E v \in PageTrees : RenderStatic(v) /\ UNCHANGED exceptRender
    \/ RenderThrowing /\ UNCHANGED exceptRender
    \/ RerenderThrowing /\ UNCHANGED exceptRender

\* the calls an application makes on a scheduler, and the host's timers
SchedulerNext ==
    \/ delay /\ UNCHANGED exceptScheduler
    \/ repeat /\ UNCHANGED exceptScheduler
    \/ pause /\ UNCHANGED exceptScheduler
    \/ resume /\ UNCHANGED exceptScheduler
    \/ \E id \in 0..(MaxTasks - 1) : id < nextId /\ cancel(id) /\ UNCHANGED exceptScheduler
    \/ \E tm \in timers : Timeout(tm) /\ UNCHANGED exceptScheduler

\* the calls an application makes on a NetworkClient, and the host's socket
\* events and timers
NetworkNext ==
    \/ connect /\ UNCHANGED exceptNetwork
    \/ disconnect /\ UNCHANGED exceptNetwork
    \/ \E s \in Sockets : onopen(s) /\ UNCHANGED exceptNetwork
    \/ \E s \in Sockets : onerror(s) /\ UNCHANGED exceptNetwork
    \/ \E s \in Sockets : onclose(s) /\ UNCHANGED exceptNetwork
    \/ \E t \in timeouts : ReconnectTimeout(t) /\ UNCHANGED exceptNetwork

\* the load() calls on a LazyComponent, the outcomes of its loader and the
\* host's timers
LazyNext ==
    \/ load /\ UNCHANGED exceptLazy
    \/ \E p \in Promises : TimeoutFires(p) /\ UNCHANGED exceptLazy
    \/ \E p \in Promises : LoaderResolves(p) /\ UNCHANGED exceptLazy
    \/ \E p \in Promises : LoaderRejects(p) /\ UNCHANGED exceptLazy
    \/ \E p \in Promises : RetryFires(p) /\ UNCHANGED exceptLazy

\* a ReactiveComponent on the global store, and the store's state changes
ComponentNext ==
    \/ Mount /\ UNCHANGED exceptComponent
    \/ Unmount /\ UNCHANGED exceptComponent
    \/ \E p \in PropsValues : Update(p) /\ UNCHANGED exceptComponent
    \/ \E u \in ComponentUpdates : SetState(u) /\ Reacts("setState") /\ UNCHANGED exceptComponent
    \/ \E u \in ComponentUpdates : SetBatchedState(u) /\ Reacts("setBatchedState") /\ UNCHANGED exceptComponent
    \/ Frame /\ Reacts("frame") /\ UNCHANGED exceptComponent

\* an application that subscribes and calls the functions it was returned
UnsubNext ==
    \/ \E sub \in KeptSubscriptions : SubscribeKeeping(sub.path, sub.l) /\ UNCHANGED exceptUnsub
    \/ \E n \in 1..MaxOps : CallUnsubscribe(n) /\ UNCHANGED exceptUnsub

Init ==
    /\ StoreInit /\ RenderInit /\ SchedulerInit /\ ComponentInit /\ UnsubInit
    /\ NetworkInit /\ LazyInit /\ LookupInit

\* a store constructed with any of the snapshots, then read by path
InitLookup ==
    /\ \E s \in Snapshots : StoreOf(s)
    /\ RenderInit /\ SchedulerInit /\ ComponentInit /\ UnsubInit
    /\ NetworkInit /\ LazyInit /\ LookupInit

SpecLookup == InitLookup /\ [][LookupNext]_vars

\* the subscriptions and the batched updates of an application whose
\* listeners may throw
FairSubscriptions == { sub \in Subscriptions : sub.l \in {"L", "T"} /\ sub.path \in {<<>>, <<"k">>} }

FairUpdates == { u \in Updates : ~u.fn /\ HasKey(u.val, "k") }

FairNext ==
    \/ \E sub \in FairSubscriptions : sub.path = <<>> /\ Subscribe(sub.l) /\ UNCHANGED exceptStore
    \/ \E sub \in FairSubscriptions : sub.path # <<>> /\ SubscribeTo(sub.path, sub.l) /\ UNCHANGED exceptStore
    \/ \E u \in FairUpdates : SetBatchedState(u) /\ UNCHANGED exceptStore
    \/ Frame /\ UNCHANGED exceptStore

\* the store with a host that eventually runs every frame callback it was
\* asked to schedule (requestAnimationFrame)
SpecFair == Init /\ [][FairNext]_vars /\ WF_vars(Frame /\ UNCHANGED exceptStore)

SpecLazy == Init /\ [][LazyNext]_vars

SpecNetwork == Init /\ [][NetworkNext]_vars

SpecUnsub == Init /\ [][UnsubNext]_vars

SpecComponent == Init /\ [][ComponentNext]_vars

SpecScheduler == Init /\ [][SchedulerNext]_vars

SpecCalls == Init /\ [][CallsNext]_vars

SpecProps == Init /\ [][PropsNext]_vars

SpecRender == Init /\ [][RenderNext]_vars

Spec == Init /\ [][StoreNext]_vars

\* ------------------------------------------------- what an operation did

IsPass == lastOp.op \in {"setState", "frame", "flushSync"}

IsFlush == lastOp.op \in {"frame", "flushSync"} /\ lastOp.rafId # 0

\* how many times listener l is registered for `path` in the table pl
Registered(pl, path, l) ==
    LET i == PathIndex(pl, path)
    IN IF i = 0 THEN 0
       ELSE Cardinality({ j \in 1..Len(pl[i].ls) : pl[i].ls[j] = l })

\* how many times listener l is registered in the array ls
RegisteredState(ls, l) == Cardinality({ j \in 1..Len(ls) : ls[j] = l })

\* the calls of the last operation to the path listener l of `path`
PathCalls(path, l) ==
    { j \in 1..Len(lastOp.log) :
        /\ lastOp.log[j].kind = "path"
        /\ lastOp.log[j].path = path
        /\ lastOp.log[j].l = l }

\* the calls of the last operation to the whole-state listener l
StateCalls(l) ==
    { j \in 1..Len(lastOp.log) : lastOp.log[j].kind = "state" /\ lastOp.log[j].l = l }

SubscribedPaths == { lastOp.pathListeners[i].path : i \in 1..Len(lastOp.pathListeners) }

\* an unsubscribe function was called during the last operation
Unsubscribed == listeners # lastOp.listeners \/ pathListeners # lastOp.pathListeners

\* the path was due in the last pass: its value changed in a setState, it
\* was among the pending changes of the window in a flush
Due(path) ==
    IF lastOp.op = "setState"
    THEN getValueByPathAndObject(lastOp.old, path) # getValueByPathAndObject(lastOp.new, path)
    ELSE IsFlush /\ \E i \in 1..Len(lastOp.pendingChanges) : lastOp.pendingChanges[i] = path

\* ------------------------------------------- what a reconciliation did

\* child.props.key, "undefined" for a child without a key
KeyOf(child) == IF child.vk = "el" THEN PropValue(child.props, "key") ELSE "undefined"

\* the keys of a list of virtual children, left to right
KeysOfChildren(children) == [j \in 1..Len(children) |-> KeyOf(children[j])]

\* the key attributes of a list of live nodes, left to right
KeysOfNodes(kids) == [j \in 1..Len(kids) |-> PropValue(kids[j].attrs, "key")]

\* every child is an element with a key, and no two share a key
AllKeyedDistinct(children) ==
    /\ \A j \in 1..Len(children) : KeyOf(children[j]) # "undefined"
    /\ \A i, j \in 1..Len(children) : i # j => KeyOf(children[i]) # KeyOf(children[j])

\* the last call patched the children of a root element that materialized
\* the old tree (same root tag in the old and the new tree)
PatchedChildren ==
    /\ lastRecon.diffed
    /\ lastRecon.consistent
    /\ lastRecon.old.tag = lastRecon.new.tag

\* the children of the old and of the new tree all carry distinct keys
KeyedToKeyed ==
    /\ PatchedChildren
    /\ AllKeyedDistinct(lastRecon.old.children)
    /\ AllKeyedDistinct(lastRecon.new.children)

\* the live root element before the last call, and as the call left it
RootBefore == firstElementChild(lastRecon.before)

RootAfter == firstElementChild(lastRecon.after)

\* the keyed children of a list carry distinct keys
DistinctKeys(children) ==
    \A i, j \in 1..Len(children) :
        (i # j /\ KeyOf(children[i]) # "undefined") => KeyOf(children[i]) # KeyOf(children[j])

\* the last call patched the children of the root under the keyed policy
\* (render.ts 630-636), the keys being distinct in each list
KeyedPolicy ==
    /\ PatchedChildren
    /\ DistinctKeys(lastRecon.old.children)
    /\ DistinctKeys(lastRecon.new.children)
    /\ KeysOfChildren(lastRecon.old.children) \o KeysOfChildren(lastRecon.new.children)
           # [j \in 1..(Len(lastRecon.old.children) + Len(lastRecon.new.children)) |-> "undefined"]

\* the keys of a list of children
KeySet(children) == { KeyOf(children[j]) : j \in 1..Len(children) } \ {"undefined"}

\* the child with key k in a list that has one
ChildOfKey(children, k) ==
    children[CHOOSE j \in 1..Len(children) : KeyOf(children[j]) = k]

\* the live nodes under a root element whose key attribute is k
NodesOfKey(root, k) ==
    { root.kids[j] : j \in { h \in 1..Len(root.kids) : PropValue(root.kids[h].attrs, "key") = k } }

\* the identities of the live nodes of a tree
RECURSIVE NodeIds(_)
NodeIds(node) == {node.nid} \cup UNION { NodeIds(node.kids[j]) : j \in 1..Len(node.kids) }

\* the identities of the live children of a root element
KidIds(root) == { root.kids[j].nid : j \in 1..Len(root.kids) }

\* the operations of the given kinds that the last call made
MutsOf(kinds) == { j \in 1..Len(lastRecon.muts) : lastRecon.muts[j].op \in kinds }

\* the new children are the old keyed children in another or the same
\* order: the same distinct keys, each on an element of the same tag
KeyedPermutation ==
    /\ KeyedToKeyed
    /\ Len(lastRecon.old.children) = Len(lastRecon.new.children)
    /\ KeySet(lastRecon.old.children) = KeySet(lastRecon.new.children)
    /\ \A k \in KeySet(lastRecon.old.children) :
           ChildOfKey(lastRecon.old.children, k).tag = ChildOfKey(lastRecon.new.children, k).tag

\* no child of the list is null
NonNull(children) == \A j \in 1..Len(children) : children[j].vk # "null"

\* the last call patched the children of the root under the unkeyed policy
\* (render.ts 630-633): no child of the old or of the new list has a key
UnkeyedPolicy ==
    /\ PatchedChildren
    /\ KeySet(lastRecon.old.children) = {}
    /\ KeySet(lastRecon.new.children) = {}

\* the place, among the live children of the element that materializes
\* `children`, of the node made for children[i]: null children make no node
\* (render.ts 393-407)
LiveIndex(children, i) ==
    Cardinality({ h \in 1..(i - 1) : children[h].vk # "null" }) + 1

\* the positions at which the old and the new list both have a text
TextPositions ==
    { i \in 1..Min(Len(lastRecon.old.children), Len(lastRecon.new.children)) :
        lastRecon.old.children[i].vk = "text" /\ lastRecon.new.children[i].vk = "text" }

\* the live node that stood for old.children[i] before the last call
NodeOfPosition(i) == RootBefore.kids[LiveIndex(lastRecon.old.children, i)]

\* the operations the last call made on the node with identity nid
MutsOn(nid) == { j \in 1..Len(lastRecon.muts) : lastRecon.muts[j].nid = nid }

\* the last call replaced the live node `old` by a subtree freshly created
\* from the virtual node vNew, once, and did nothing else to `old`: `now`
\* is a new node object with the structure of vNew, `old` is no longer in the
\* live tree, and the only operation on `old` or below it is its removal
ReplacedBy(old, now, vNew) ==
    /\ now.nid >= lastRecon.fresh
    /\ Shape(now) = Shape(Materialize(vNew))
    /\ old.nid \notin NodeIds(lastRecon.after)
    /\ Cardinality(MutsOn(old.nid)) = 1
    /\ \A j \in MutsOn(old.nid) : lastRecon.muts[j].op = "remove"
    /\ \A id \in NodeIds(old) \ {old.nid} : MutsOn(id) = {}
    /\ Cardinality({ j \in MutsOn(now.nid) : lastRecon.muts[j].op = "insert" }) = 1

\* the keys of an object of props
PropKeys(props) == { props[j].k : j \in 1..Len(props) }

\* the attributes of a live node that the prop `key` is applied to
AttrsOfProp(key) == IF key \in EventKeys THEN {EventIdKey(key), "id"} ELSE {key}

\* the operations the last call made on the given attributes of a node
MutsOnAttrs(nid, keys) ==
    { j \in MutsOn(nid) : lastRecon.muts[j].key \in keys }

\* the event identifiers that the datasets of the nodes of a live tree name
RECURSIVE EventIdsIn(_)
EventIdsIn(node) ==
    { node.attrs[j].v : j \in { h \in 1..Len(node.attrs) :
                                  node.attrs[h].k \in { EventIdKey(key) : key \in EventKeys } } }
    \cup UNION { EventIdsIn(node.kids[j]) : j \in 1..Len(node.kids) }

\* handler.ts 208-221: the handlers that an event on a node of the live tree
\* can reach
Dispatchable == { h.handler : h \in { e \in eventRegistry.handlers : e.id \in EventIdsIn(container) } }

\* the handlers that the props of a virtual tree give
RECURSIVE HandlersOf(_)
HandlersOf(v) ==
    { v.props[j].v : j \in { h \in 1..Len(v.props) : v.props[h].k \in EventKeys } }
    \cup UNION { HandlersOf(v.children[j]) : j \in 1..Len(v.children) }

\* the first child of the list that carries the key
FirstOfKey(children, k) ==
    children[CHOOSE i \in 1..Len(children) :
                 /\ KeyOf(children[i]) = k
                 /\ \A j \in 1..(i - 1) : KeyOf(children[j]) # k]

\* the keys that more than one child of the list carries
DuplicateKeys(children) ==
    { KeyOf(children[i]) : i \in { h \in 1..Len(children) :
          KeyOf(children[h]) # "undefined"
          /\ \E j \in 1..Len(children) : j # h /\ KeyOf(children[j]) = KeyOf(children[h]) } }

\* a bracket of the path that no later character closes, as in  a[1
Unterminated(path) ==
    \E i \in 1..Len(path) : path[i] = "[" /\ IndexOf(path, "]", i) = -1

\* a closed bracket of the path with something else than digits in it, as in  a[x]
NonNumeric(path) ==
    \E i \in 1..Len(path) :
        /\ path[i] = "["
        /\ IndexOf(path, "]", i) # -1
        /\ LET inside == Substring(path, i, IndexOf(path, "]", i))
           IN inside = <<>> \/ \E j \in 1..Len(inside) : ~IsDigit(inside[j])

Malformed(path) == Unterminated(path) \/ NonNumeric(path)

\* the proper prefixes of a path that end where a segment ends
SegmentPrefixes(path) ==
    { SubSeq(path, 1, j) : j \in { h \in 1..(Len(path) - 1) : path[h + 1] \in {".", "["} } }

\* some intermediate value of the path is null or absent in the snapshot
BrokenChain(obj, path) ==
    \E prefix \in SegmentPrefixes(path) : IsNullish(getValueByPathAndObject(obj, prefix))

\* no listener that throws is registered
ThrowerFree ==
    /\ \A j \in 1..Len(listeners) : listeners[j] # "T"
    /\ \A i \in 1..Len(pathListeners) :
           \A j \in 1..Len(pathListeners[i].ls) : pathListeners[i].ls[j] # "T"

\* ------------------------------------------------------------------ claims

\* C2: after a synchronous setState from old to new, a listener registered
\* with subscribeTo(path, ...) has been called exactly once, with
\* (resolve(new, path), resolve(old, path)), if the two resolved values
\* differ, and not at all otherwise.
C2_PathListenerFiresExactlyOnce ==
    lastOp.op = "setState" =>
        \A path \in SubscribedPaths, l \in Listeners :
            LET oldValue == getValueByPathAndObject(lastOp.old, path)
                newValue == getValueByPathAndObject(lastOp.new, path)
            IN /\ Cardinality(PathCalls(path, l)) =
                      IF oldValue # newValue
                      THEN Registered(lastOp.pathListeners, path, l) ELSE 0
               /\ \A j \in PathCalls(path, l) :
                      lastOp.log[j].new = newValue /\ lastOp.log[j].old = oldValue

\* C2 holds of every setState in which no listener throws or unsubscribes
C2_WhenNoListenerThrows ==
    (lastOp.op = "setState" /\ ~lastOp.thrown /\ ~Unsubscribed) =>
        \A path \in SubscribedPaths, l \in Listeners :
            LET oldValue == getValueByPathAndObject(lastOp.old, path)
                newValue == getValueByPathAndObject(lastOp.new, path)
            IN /\ Cardinality(PathCalls(path, l)) =
                      IF oldValue # newValue
                      THEN Registered(lastOp.pathListeners, path, l) ELSE 0
               /\ \A j \in PathCalls(path, l) :
                      lastOp.log[j].new = newValue /\ lastOp.log[j].old = oldValue

\* C3: in one setState and in one flush every call of a path listener comes
\* before every call of a whole-state listener; setState leaves nothing to be
\* notified later (the batch window is as it was, and the calls of an open
\* window are setBatchedState calls only).
C3_PathListenersBeforeStateListeners ==
    /\ IsPass =>
           \A i, j \in 1..Len(lastOp.log) :
               (lastOp.log[i].kind = "state" /\ lastOp.log[j].kind = "path") => j < i
    /\ (lastOp.op = "setState" /\ lastOp.reentered = <<>>) =>
           /\ pendingUpdate = lastOp.wasPending
           /\ pendingChanges = lastOp.pendingChanges
           /\ rafId = lastOp.rafId
    /\ \A c \in windowCalls : calls[c] = "setBatchedState"

\* a flush has called a path listener and then a whole-state listener
C3_Witness ==
    /\ lastOp.op = "frame"
    /\ \E i, j \in 1..Len(lastOp.log) :
           i < j /\ lastOp.log[i].kind = "path" /\ lastOp.log[j].kind = "state"

\* C4: the setBatchedState calls made before the scheduled flush runs are
\* notified by exactly one flush: it calls each whole-state listener exactly
\* once and the listeners of each path of the window exactly once, and no
\* flush remains scheduled for the window.
C4_OneFlushPerWindow ==
    lastOp.op = "frame" =>
        /\ \A l \in Listeners :
               Cardinality(StateCalls(l)) = RegisteredState(lastOp.listeners, l)
        /\ \A i \in 1..Len(lastOp.pendingChanges), l \in Listeners :
               Cardinality(PathCalls(lastOp.pendingChanges[i], l)) =
                   Registered(lastOp.pathListeners, lastOp.pendingChanges[i], l)
        /\ frames = {}

\* C4 holds of every flush in which no listener throws or unsubscribes
C4_WhenNoListenerThrows ==
    (lastOp.op = "frame" /\ ~lastOp.thrown /\ ~Unsubscribed) =>
        /\ \A l \in Listeners :
               Cardinality(StateCalls(l)) = RegisteredState(lastOp.listeners, l)
        /\ \A i \in 1..Len(lastOp.pendingChanges), l \in Listeners :
               Cardinality(PathCalls(lastOp.pendingChanges[i], l)) =
                   Registered(lastOp.pathListeners, lastOp.pendingChanges[i], l)
        /\ frames = {}

\* C5: a flush calls a path listener only if the value of its path differs
\* between the snapshot before the first batched call of the window and the
\* snapshot after the last one, and passes it the values in those snapshots.
C5_FlushComparesWindowSnapshots ==
    (IsFlush /\ ~lastOp.thrown /\ lastOp.reentered = <<>>) =>
        \A j \in 1..Len(lastOp.log) :
            lastOp.log[j].kind = "path" =>
                LET oldValue == getValueByPathAndObject(lastOp.old, lastOp.log[j].path)
                    newValue == getValueByPathAndObject(lastOp.new, lastOp.log[j].path)
                IN /\ oldValue # newValue
                   /\ lastOp.log[j].new = newValue
                   /\ lastOp.log[j].old = oldValue

\* C6: the path subscribers a flush notifies of the change old -> new are
\* those a setState making the same change notifies: the subscribers of
\* every path whose resolved value differs between old and new.
C6_FlushNotifiesWhatSetStateNotifies ==
    (IsFlush /\ ~lastOp.thrown /\ lastOp.reentered = <<>>) =>
        \A path \in SubscribedPaths, l \in Listeners :
            LET oldValue == getValueByPathAndObject(lastOp.old, path)
                newValue == getValueByPathAndObject(lastOp.new, path)
            IN (PathCalls(path, l) # {}) <=>
                   (oldValue # newValue /\ Registered(lastOp.pathListeners, path, l) > 0)

\* C7: when flushSync() returns, the listeners of the pending window have been
\* called (every whole-state listener and the listeners of every path of the
\* window), no window is open and no flush remains scheduled; with nothing
\* pending flushSync() calls no listener.
C7_FlushSyncLeavesNothingPending ==
    (lastOp.op = "flushSync" /\ ~lastOp.thrown) =>
        /\ ~pendingUpdate
        /\ pendingChanges = <<>>
        /\ rafId = 0
        /\ frames = {}
        /\ lastOp.rafId = 0 => lastOp.log = <<>>
        /\ lastOp.rafId # 0 =>
               /\ \A l \in Listeners :
                      Cardinality(StateCalls(l)) = RegisteredState(lastOp.listeners, l)
               /\ \A i \in 1..Len(lastOp.pendingChanges), l \in Listeners :
                      Cardinality(PathCalls(lastOp.pendingChanges[i], l)) =
                          Registered(lastOp.pathListeners, lastOp.pendingChanges[i], l)

\* C8: a setBatchedState made by a listener during a flush opens a new
\* window: when the flush ends a new flush is scheduled, and the window it
\* will notify starts at the snapshot that existed just before that call.
C8_ReentrantCallOpensNewWindow ==
    (IsFlush /\ ~lastOp.thrown /\ lastOp.reentered # <<>>) =>
        /\ pendingUpdate
        /\ rafId \in frames
        /\ batchOldState = lastOp.reentered[1].before
        /\ batchNewState = state

\* C9: a listener notified of the changes of two calls is notified of the
\* earlier call's change first.
C9_NotifiedInCallOrder == inversions = {}

\* C10: when a listener throws during a notification pass, every other
\* listener due in that pass is still called: every whole-state listener
\* and, in a setState, the listeners of every path whose value changed.
C10_PassSurvivesThrowingListener ==
    (IsPass /\ lastOp.thrown) =>
        /\ \A l \in Listeners :
               Cardinality(StateCalls(l)) = RegisteredState(lastOp.listeners, l)
        /\ lastOp.op = "setState" =>
               \A path \in SubscribedPaths, l \in Listeners :
                   (getValueByPathAndObject(lastOp.old, path)
                        # getValueByPathAndObject(lastOp.new, path))
                   => Cardinality(PathCalls(path, l)) =
                          Registered(lastOp.pathListeners, path, l)

\* C1: when the live tree is exactly the materialization of the old tree,
\* diffAndPatch(live, old, new) leaves a live tree structurally identical to
\* a fresh materialization of the new tree: same tags, same attributes, same
\* ordered children and texts.
C1_PatchedTreeIsTheMaterialization ==
    lastRecon.diffed /\ lastRecon.consistent =>
        /\ ~lastRecon.thrown
        /\ Shape(firstElementChild(container)) = Shape(Materialize(lastVirtualDOM))

\* C11: a call to setState or setBatchedState returns normally; no exception
\* raised by a listener reaches the caller of the mutation.
C11_MutationReturnsNormally ==
    lastOp.op \in {"setState", "setBatchedState"} => ~lastOp.thrown

\* C12: when a listener calls an unsubscribe function while it is being
\* invoked, every other listener that is still subscribed and due in the
\* pass is invoked exactly once in that pass, per registration; for
\* whole-state subscriptions and for subscriptions to one path.
C12_UnsubscribeDuringPassSkipsNobody ==
    (IsPass /\ Unsubscribed /\ ~lastOp.thrown) =>
        /\ (lastOp.op = "setState" \/ IsFlush) =>
               \A l \in Listeners \ {"U"} :
                   RegisteredState(listeners, l) > 0 =>
                       Cardinality(StateCalls(l)) = RegisteredState(listeners, l)
        /\ \A path \in SubscribedPaths, l \in Listeners \ {"U"} :
               (Due(path) /\ Registered(pathListeners, path, l) > 0) =>
                   Cardinality(PathCalls(path, l)) = Registered(pathListeners, path, l)

\* the part of C12 about whole-state subscriptions
C12_WholeStatePart ==
    (IsPass /\ listeners # lastOp.listeners /\ pathListeners = lastOp.pathListeners
        /\ ~lastOp.thrown /\ (lastOp.op = "setState" \/ IsFlush)) =>
        \A l \in Listeners \ {"U"} :
            RegisteredState(listeners, l) > 0 =>
                Cardinality(StateCalls(l)) = RegisteredState(listeners, l)

\* C13: when all old and all new children carry distinct keys, after
\* reconciliation the keys of the live children, left to right, are the keys
\* of the new children.
C13_LiveKeysFollowNewKeys ==
    KeyedToKeyed =>
        /\ ~lastRecon.thrown
        /\ KeysOfNodes(RootAfter.kids) = KeysOfChildren(lastRecon.new.children)

\* C14: for a key present among the old and among the new children (with
\* the same tag), the live node that carried the key before reconciliation
\* is the node that carries it afterwards, and that node, and no other,
\* received the difference between the key's old and new virtual node: it
\* has the attributes and children of the key's new virtual node.
C14_KeyKeepsItsLiveNode ==
    KeyedPolicy =>
        /\ ~lastRecon.thrown
        /\ \A k \in KeySet(lastRecon.old.children) \cap KeySet(lastRecon.new.children) :
               ChildOfKey(lastRecon.old.children, k).tag = ChildOfKey(lastRecon.new.children, k).tag
               => \E n \in NodesOfKey(RootAfter, k) :
                      /\ NodesOfKey(RootBefore, k) # {}
                      /\ \A b \in NodesOfKey(RootBefore, k) : b.nid = n.nid
                      /\ Shape(n) = Shape(Materialize(ChildOfKey(lastRecon.new.children, k)))

C16_OnlyDroppedKeysAreRemoved ==
    KeyedToKeyed =>
        /\ ~lastRecon.thrown
        /\ \A k \in KeySet(lastRecon.old.children) :
               \A b \in NodesOfKey(RootBefore, k) :
                   IF k \in KeySet(lastRecon.new.children)
                      /\ ChildOfKey(lastRecon.old.children, k).tag
                             = ChildOfKey(lastRecon.new.children, k).tag
                   THEN b.nid \in KidIds(RootAfter)
                   ELSE k \notin KeySet(lastRecon.new.children) => b.nid \notin KidIds(RootAfter)

\* C17: under the unkeyed policy with non-null children, after reconciling
\* an old list of m children against a new list of n the live parent has
\* exactly n children: the m - n trailing old live children are removed when
\* n < m, the extra new children are appended in order when n > m.
C17_UnkeyedLengthFollowsNewList ==
    (UnkeyedPolicy /\ NonNull(lastRecon.old.children) /\ NonNull(lastRecon.new.children)) =>
        /\ ~lastRecon.thrown
        /\ Len(RootAfter.kids) = Len(lastRecon.new.children)
        /\ Shape(RootAfter) = Shape(Materialize(lastRecon.new))

\* C17 when the new list is at most one child shorter than the old one
C17_AtMostOneRemoved ==
    (UnkeyedPolicy /\ NonNull(lastRecon.old.children) /\ NonNull(lastRecon.new.children)
        /\ Len(lastRecon.old.children) <= Len(lastRecon.new.children) + 1) =>
        /\ ~lastRecon.thrown
        /\ Len(RootAfter.kids) = Len(lastRecon.new.children)
        /\ Shape(RootAfter) = Shape(Materialize(lastRecon.new))

\* C18: under the unkeyed policy, for text children at the same index in
\* the old and the new list, the live text node is written only when the two
\* texts differ; the live node of a position whose text is equal receives
\* no mutation and stays as it is under the live parent.
C18_EqualTextIsUntouched ==
    UnkeyedPolicy =>
        \A i \in TextPositions :
            lastRecon.old.children[i].text = lastRecon.new.children[i].text =>
                /\ MutsOn(NodeOfPosition(i).nid) = {}
                /\ NodeOfPosition(i) \in { RootAfter.kids[j] : j \in 1..Len(RootAfter.kids) }

\* C18 for lists without null children
C18_WithoutNullChildren ==
    (UnkeyedPolicy /\ NonNull(lastRecon.old.children) /\ NonNull(lastRecon.new.children)) =>
        \A i \in TextPositions :
            lastRecon.old.children[i].text = lastRecon.new.children[i].text =>
                /\ MutsOn(NodeOfPosition(i).nid) = {}
                /\ NodeOfPosition(i) \in { RootAfter.kids[j] : j \in 1..Len(RootAfter.kids) }

\* C19: reconciling a live tree that materializes T against T itself
\* performs no operation on the live tree (no create, remove, move,
\* attribute or text write), whatever T, null children and lists that mix
\* keyed and unkeyed children included.
C19_SameTreeIsANoOp ==
    (lastRecon.diffed /\ lastRecon.consistent /\ lastRecon.old = lastRecon.new) =>
        /\ ~lastRecon.thrown
        /\ lastRecon.muts = <<>>
        /\ lastRecon.after = lastRecon.before

\* C19 for trees whose child lists have no null child and are all keyed
\* (with distinct keys) or all unkeyed
C19_WithoutNullOrMixedChildren ==
    (lastRecon.diffed /\ lastRecon.consistent /\ lastRecon.old = lastRecon.new
        /\ NonNull(lastRecon.new.children)
        /\ (AllKeyedDistinct(lastRecon.new.children) \/ KeySet(lastRecon.new.children) = {})) =>
        /\ ~lastRecon.thrown
        /\ lastRecon.muts = <<>>
        /\ lastRecon.after = lastRecon.before

\* C20: when the old and the new node have different tags, the old live
\* subtree is replaced in its parent by a subtree freshly created from the
\* new node, exactly once, and no attribute patch and no child patch is
\* applied to the old live node; for the root element and for a keyed child.
C20_TagChangeReplacesTheSubtree ==
    /\ (lastRecon.diffed /\ lastRecon.consistent /\ lastRecon.old.tag # lastRecon.new.tag) =>
           /\ ~lastRecon.thrown
           /\ ReplacedBy(RootBefore, RootAfter, lastRecon.new)
    /\ KeyedPolicy =>
           \A k \in KeySet(lastRecon.old.children) \cap KeySet(lastRecon.new.children) :
               ChildOfKey(lastRecon.old.children, k).tag # ChildOfKey(lastRecon.new.children, k).tag
               => /\ ~lastRecon.thrown
                  /\ \A b \in NodesOfKey(RootBefore, k) :
                         \E n \in NodesOfKey(RootAfter, k) :
                             ReplacedBy(b, n, ChildOfKey(lastRecon.new.children, k))

\* C20 for the root element
C20_AtTheRoot ==
    (lastRecon.diffed /\ lastRecon.consistent /\ lastRecon.old.tag # lastRecon.new.tag) =>
        /\ ~lastRecon.thrown
        /\ ReplacedBy(RootBefore, RootAfter, lastRecon.new)

\* C21: after the attributes of a same-tag node whose live attributes are
\* those of the old props were diffed, every key of the old props that the
\* new props lack is removed from the live node (it has the attribute only
\* if a node created from the new props has it), the keys with unchanged
\* values received no mutation, and the live attributes are those of a node
\* freshly created from the new props.
C21_DiffedAttributesAreTheNewProps ==
    PatchedChildren =>
        /\ ~lastRecon.thrown
        /\ \A key \in PropKeys(lastRecon.old.props) \ PropKeys(lastRecon.new.props) :
               \A attr \in AttrsOfProp(key) :
                   HasProp(RootAfter.attrs, attr) => HasProp(Materialize(lastRecon.new).attrs, attr)
        /\ \A key \in PropKeys(lastRecon.old.props) \cap PropKeys(lastRecon.new.props) :
               PropValue(lastRecon.old.props, key) = PropValue(lastRecon.new.props, key)
               => MutsOnAttrs(RootBefore.nid, {key, EventIdKey(key)}) = {}
        /\ Shape(RootAfter).attrs = Shape(Materialize(lastRecon.new)).attrs

\* C21 for props that are plain or boolean attributes with defined values
C21_PlainDefinedProps ==
    (/\ \A j \in 1..Len(lastRecon.new.props) : lastRecon.new.props[j].v # "undefined"
     /\ \A j \in 1..Len(lastRecon.old.props) : lastRecon.old.props[j].v # "undefined"
     /\ (PropKeys(lastRecon.old.props) \cup PropKeys(lastRecon.new.props)) \cap EventKeys = {})
    => C21_DiffedAttributesAreTheNewProps

\* C22: when an event-type attribute of a live node changes value or is
\* removed, the handler registered before is released: after a
\* reconciliation the handlers that an event can reach are handlers of the
\* new tree (a replaced or removed handler is no longer dispatched), and,
\* when no node left the live tree, every registered handler is the one
\* that a live node names (no node has a second registration).
C22_ReplacedHandlerIsReleased ==
    (lastRecon.diffed /\ lastRecon.consistent /\ ~lastRecon.thrown) =>
        /\ Dispatchable \subseteq HandlersOf(lastRecon.new)
        /\ MutsOf({"remove"}) = {} =>
               \A e \in eventRegistry.handlers : e.id \in EventIdsIn(container)

\* C22 when the node with the handler is the patched root element
C22_OnTheRootElement ==
    (PatchedChildren /\ ~lastRecon.thrown
        /\ lastRecon.old.children = <<>> /\ lastRecon.new.children = <<>>) =>
        /\ Dispatchable = HandlersOf(lastRecon.new)
        /\ Cardinality(eventRegistry.handlers) <= 1
        /\ \A e \in eventRegistry.handlers : e.id \in EventIdsIn(container)

\* C23: if a key appears more than once among the new children,
\* reconciliation does not throw; the first occurrence reuses the old live
\* node of that key (one of the live children with the key is that node) and
\* every other live child with the key is a freshly created node.
C23_DuplicateKeyFirstMatchWins ==
    (PatchedChildren /\ DistinctKeys(lastRecon.old.children)
        /\ DuplicateKeys(lastRecon.new.children) # {}) =>
        /\ ~lastRecon.thrown
        /\ \A k \in DuplicateKeys(lastRecon.new.children) :
               /\ \A b \in NodesOfKey(RootBefore, k) :
                      ChildOfKey(lastRecon.old.children, k).tag = FirstOfKey(lastRecon.new.children, k).tag =>
                          \E n \in NodesOfKey(RootAfter, k) : n.nid = b.nid
               /\ \A n \in NodesOfKey(RootAfter, k) :
                      n.nid >= lastRecon.fresh \/ \E b \in NodesOfKey(RootBefore, k) : b.nid = n.nid

\* C23 when the old list has no null child
C23_WithoutNullChildren ==
    NonNull(lastRecon.old.children) => C23_DuplicateKeyFirstMatchWins

\* C24: getValueByPath(path) returns undefined whenever the path cannot be
\* fully resolved against the snapshot: when an intermediate value is null
\* or absent, and when the path is malformed (unterminated bracket,
\* non-numeric index).
C24_UnresolvedPathIsUndefined ==
    lookup.done =>
        /\ Malformed(lookup.path) => lookup.result = Undef
        /\ (~Malformed(lookup.path) /\ BrokenChain(state, lookup.path)) => lookup.result = Undef

\* C24 with null accepted for undefined, on well-formed paths
C24_BrokenChainIsNullish ==
    (lookup.done /\ ~Malformed(lookup.path) /\ BrokenChain(state, lookup.path))
        => IsNullish(lookup.result)

\* C24 on paths whose every intermediate value is absent rather than null
C24_AbsentIsUndefined ==
    (lookup.done /\ ~Malformed(lookup.path)
        /\ \E prefix \in SegmentPrefixes(lookup.path) :
               getValueByPathAndObject(state, prefix) = Undef)
        => lookup.result = Undef

\* C25: setState(partial) and setBatchedState(partial) replace the snapshot
\* by a shallow top-level merge: a key of partial takes the given value, any
\* other key keeps the value (the same reference) it had; with a function
\* the snapshot becomes what the function returned; getState() returns that
\* snapshot right after the call. A call in which a listener mutated the
\* store again is followed by the snapshot of that nested call, and is left
\* to it.
C25_ShallowTopLevelMerge ==
    (lastOp.op \in {"setState", "setBatchedState"} /\ lastOp.reentered = <<>>) =>
        IF lastOp.update.fn
        THEN state = lastOp.update.val
        ELSE /\ state.t = "obj"
             /\ \A key \in {"a", "k"} :
                    IF HasKey(lastOp.update.val, key)
                    THEN GetProp(state, key) = GetProp(lastOp.update.val, key)
                    ELSE /\ HasKey(state, key) <=> HasKey(lastOp.old, key)
                         /\ GetProp(state, key) = GetProp(lastOp.old, key)

\* a partial update overwrote one key of a snapshot that holds another key
C25_Witness ==
    /\ lastOp.op \in {"setState", "setBatchedState"}
    /\ lastOp.reentered = <<>>
    /\ ~lastOp.update.fn
    /\ HasKey(lastOp.update.val, "k")
    /\ HasKey(lastOp.old, "k")
    /\ GetProp(lastOp.old, "k") # GetProp(state, "k")
    /\ HasKey(lastOp.old, "a")
    /\ GetProp(state, "a").t = "obj"

\* C26: setBatchedState invokes no listener before it returns, although
\* getState() already reflects the merged snapshot; the listeners of a
\* batched call are invoked only by a later flush (the frame callback or
\* flushSync); setState invokes its listeners before it returns.
C26_BatchedCallNotifiesNobody ==
    /\ lastOp.op = "setBatchedState" =>
           /\ lastOp.log = <<>>
           /\ ~lastOp.thrown
           /\ \A key \in {"a", "k"} :
                  (~lastOp.update.fn /\ HasKey(lastOp.update.val, key))
                      => GetProp(state, key) = GetProp(lastOp.update.val, key)
           /\ lastOp.update.fn => state = lastOp.update.val
           /\ \A l \in Listeners : Len(calls) \notin seen[l]
    /\ (lastOp.op = "setState" /\ lastOp.listeners # <<>>) =>
           /\ lastOp.log # <<>>
           /\ Len(calls) \in seen[lastOp.log[1].l]

\* a batched call changed a path that has a listener, with a whole-state
\* listener subscribed as well, and returned
C26_Witness ==
    /\ lastOp.op = "setBatchedState"
    /\ lastOp.listeners # <<>>
    /\ \E i \in 1..Len(lastOp.pathListeners) :
           /\ lastOp.pathListeners[i].ls # <<>>
           /\ getValueByPathAndObject(lastOp.old, lastOp.pathListeners[i].path)
                  # getValueByPathAndObject(state, lastOp.pathListeners[i].path)
    /\ pendingUpdate

\* C27: if the component function throws while producing the new tree, the
\* exception is caught at the render site (it does not leave render or
\* rerender) and the previously rendered live tree is left unchanged:
\* neither partially patched nor cleared.
C27_ThrowingComponentIsContained ==
    lastRecon.componentThrew =>
        /\ ~lastRecon.thrown
        /\ lastRecon.muts = <<>>
        /\ lastRecon.after = lastRecon.before

\* C27 without the catch: the live tree is untouched
C27_LiveTreeIsUntouched ==
    lastRecon.componentThrew =>
        /\ lastRecon.muts = <<>>
        /\ lastRecon.after = lastRecon.before
        /\ container = lastRecon.before

\* C28: every reconciliation diffs the new tree against the tree the
\* immediately preceding render call of the container applied, whether that
\* call was given a component function or a static element.
C28_DiffsAgainstTheLastAppliedTree ==
    lastRecon.diffed => lastRecon.old = lastRecon.applied

\* C28 as long as no static element was rendered
C28_WithoutStaticRenders ==
    staticRenders = 0 => C28_DiffsAgainstTheLastAppliedTree

\* C29: no task function runs while the scheduler is paused, whether the
\* task was created by delay or repeat, before or during the pause; a
\* delayed task that was not cancelled runs at most once and, the scheduler
\* not being paused, has its timeout set until it has run; a cancelled task
\* never runs.
C29_PausedSchedulerRunsNothing ==
    /\ \A j \in 1..Len(executions) : ~executions[j].paused
    /\ \A j \in 1..Len(executions) : ~executions[j].cancelled
    /\ \A i, j \in 1..Len(executions) :
           (i # j /\ ~executions[i].repeat) => executions[i].id # executions[j].id
    /\ ~paused => \A task \in tasks :
                      \E tm \in timers : tm.handle = task.timeoutId /\ tm.id = task.id

\* C29 for the tasks created while the scheduler was not paused
C29_TasksAddedBeforeThePause ==
    /\ \A j \in 1..Len(executions) :
           executions[j].paused => executions[j].addedPaused
    /\ \A j \in 1..Len(executions) : ~executions[j].cancelled
    /\ \A i, j \in 1..Len(executions) :
           (i # j /\ ~executions[i].repeat) => executions[i].id # executions[j].id
    /\ ~paused => \A task \in tasks :
                      \E tm \in timers : tm.handle = task.timeoutId /\ tm.id = task.id

\* C30: when the new children of a parent reconciled under the keyed policy
\* are some keyed and some unkeyed, the live children end, left to right, as
\* the children of the new tree, each unkeyed child at its place among the
\* keyed ones.
C30_UnkeyedChildrenKeepTheirPlace ==
    (KeyedPolicy /\ KeySet(lastRecon.new.children) # {}
        /\ (\E j \in 1..Len(lastRecon.new.children) :
               KeyOf(lastRecon.new.children[j]) = "undefined")) =>
        /\ ~lastRecon.thrown
        /\ Shape(RootAfter).kids = Shape(Materialize(lastRecon.new)).kids

\* C30 when the new list is the old list, all keyed, followed by unkeyed
\* children none of which is null
C30_UnkeyedChildrenAppended ==
    (/\ KeySet(lastRecon.old.children) # {}
     /\ Len(lastRecon.old.children) < Len(lastRecon.new.children)
     /\ \A j \in 1..Len(lastRecon.new.children) :
            IF j <= Len(lastRecon.old.children)
            THEN /\ lastRecon.new.children[j] = lastRecon.old.children[j]
                 /\ KeyOf(lastRecon.new.children[j]) # "undefined"
            ELSE /\ KeyOf(lastRecon.new.children[j]) = "undefined"
                 /\ lastRecon.new.children[j].vk # "null")
        => C30_UnkeyedChildrenKeepTheirPlace

\* C31: a ReactiveComponent holds exactly one store subscription per watched
\* state path while mounted and none while unmounted; mount() on a mounted
\* component adds no subscription and does not render; after unmount() no
\* state change invokes its listeners or its render function; over any
\* sequence of mount / unmount / update calls and state changes.
C31_OneSubscriptionPerPathWhileMounted ==
    /\ \A j \in 1..Len(StatePaths) :
           Registered(pathListeners, StatePaths[j], "C1")
               + Registered(pathListeners, StatePaths[j], "C2") = IF isMounted THEN 1 ELSE 0
    /\ Len(subscriptions) = IF isMounted THEN Len(StatePaths) ELSE 0
    /\ \A j \in 1..Len(subscriptions) :
           Registered(pathListeners, subscriptions[j].path, subscriptions[j].l) = 1
    /\ (compLast.op = "mount" /\ compLast.wasMounted) => compLast.rendered = 0
    /\ (compLast.op \in {"setState", "setBatchedState", "frame"} /\ ~compLast.wasMounted)
           => compLast.invoked = 0 /\ compLast.rendered = 0
    /\ isMounted <=> compContainer # "null"

\* the component was mounted, unmounted and mounted again, and a state change
\* then made it render once
C31_Witness ==
    /\ mounts = 2
    /\ isMounted
    /\ compLast.op = "setState"
    /\ compLast.rendered = 1

\* C32: the unsubscribe function returned by subscribe or subscribeTo
\* removes exactly the registration it was returned for, and nothing when
\* that registration is already removed, also when the same listener is
\* registered more than once or again after having been unsubscribed.
C32_UnsubscribeRemovesItsOwnRegistration ==
    lastUnsub.reg # 0 =>
        lastUnsub.removed = IF lastUnsub.wasRegistered THEN {lastUnsub.reg} ELSE {}

\* C32 as long as no listener was registered twice for the same path or
\* twice as a whole-state listener
C32_WhenNoListenerIsRegisteredTwice ==
    (\A i, j \in 1..Len(issued) : i # j => issued[i] # issued[j])
        => C32_UnsubscribeRemovesItsOwnRegistration

\* C33: between operations the batch bookkeeping is consistent: pendingUpdate
\* is true exactly when a flush handle that the host still has scheduled is
\* held (rafId) and batchOldState and batchNewState are set; pendingChanges
\* is empty when pendingUpdate is false; a window is opened only by a
\* setBatchedState made while none is open, and a flush that completes
\* closes it.
C33_BatchBookkeepingIsConsistent ==
    /\ pendingUpdate <=>
           (rafId # 0 /\ rafId \in frames /\ batchOldState # Null /\ batchNewState # Null)
    /\ ~pendingUpdate => pendingChanges = <<>>
    /\ (pendingUpdate /\ ~lastOp.wasPending) =>
           \/ lastOp.op = "setBatchedState"
           \/ lastOp.op = "setState" /\ lastOp.reentered # <<>>
    /\ (lastOp.op = "setBatchedState" /\ lastOp.wasPending) =>
           /\ rafId = lastOp.rafId
           /\ pendingUpdate
    /\ (IsFlush /\ ~lastOp.thrown) => ~pendingUpdate

\* C33 for the fields alone, whether or not the handle held is still
\* scheduled
C33_FieldsAgree ==
    /\ pendingUpdate <=> (rafId # 0 /\ batchOldState # Null /\ batchNewState # Null)
    /\ pendingUpdate <=> (rafId # 0 \/ batchOldState # Null \/ batchNewState # Null)
    /\ ~pendingUpdate => pendingChanges = <<>>
    /\ (pendingUpdate /\ ~lastOp.wasPending) =>
           \/ lastOp.op = "setBatchedState"
           \/ lastOp.op = "setState" /\ lastOp.reentered # <<>>
    /\ (IsFlush /\ ~lastOp.thrown) => ~pendingUpdate

\* C34: the host running every scheduled frame callback, every
\* setBatchedState call is eventually followed by the flush of its window:
\* the store never stays with pendingUpdate true.
C34_EveryWindowIsFlushed ==
    pendingUpdate ~> ~pendingUpdate

\* C34 as long as no throwing listener is subscribed
C34_WhenNoListenerThrows ==
    []ThrowerFree => C34_EveryWindowIsFlushed

\* C35: in a batch flush, the newState given to the whole-state listeners
\* and the new values given to the path listeners are those of the store's
\* current snapshot (getState()), also when setState was called while the
\* window was open.
C35_FlushPassesTheCurrentSnapshot ==
    (IsFlush /\ lastOp.reentered = <<>>) =>
        \A j \in 1..Len(lastOp.log) :
            IF lastOp.log[j].kind = "state"
            THEN lastOp.log[j].new = state
            ELSE lastOp.log[j].new = getValueByPathAndObject(state, lastOp.log[j].path)

\* C35 as long as setState is never called
C35_WithBatchedCallsOnly ==
    (\A j \in 1..Len(calls) : calls[j] = "setBatchedState")
        => C35_FlushPassesTheCurrentSnapshot

\* C36: after any sequence of renders the event registry holds no handler
\* whose node is no longer part of the live tree: removing or replacing a
\* live node releases the handlers of the node and of its descendants.
C36_RegistryHoldsOnlyLiveHandlers ==
    \A e \in eventRegistry.handlers : e.id \in EventIdsIn(container)

\* C36 for the calls that remove, replace or clear no node
C36_WhenNoNodeLeavesTheTree ==
    MutsOf({"remove", "replace", "clear"}) = {} => C36_RegistryHoldsOnlyLiveHandlers

\* C37: isRerendering is false whenever no re-render is executing, so that
\* no re-render is skipped: a rerender call made between operations calls
\* the component function, also after a render function threw.
C37_NoRerenderIsSkipped ==
    /\ ~isRerendering
    /\ lastRecon.op = "rerender" => (lastRecon.componentThrew \/ lastRecon.new # VNull)

\* C37 for the re-renders that complete: they leave the flag false
C37_CompletedRerenderResetsTheFlag ==
    (lastRecon.op = "rerender" /\ ~lastRecon.thrown /\ lastRecon.new # VNull)
        => ~isRerendering

\* C38: isConnected() is true only while the client's current socket is
\* open, and a callback of a previous socket changes neither the state nor
\* the ping timer nor the reconnect schedule of the current socket.
C38_OnlyTheCurrentSocketCounts ==
    /\ netState = "connected" => (ws # 0 /\ readyState[ws] = "open")
    /\ (/\ netLast.op \in {"onopen", "onclose", "onerror"}
        /\ netLast.current # 0
        /\ netLast.socket # netLast.current) => ~netLast.changed

\* C38 for a client that has created one socket only
C38_WithASingleSocket ==
    Created <= 1 => C38_OnlyTheCurrentSocketCounts

\* C39: once a load has settled the promise and the state agree: a resolved
\* promise goes with LOADED, a rejected one with ERROR or TIMEOUT until
\* load() is called again; a load() call during an in-flight load returns
\* the in-flight promise.
C39_PromiseAndStateAgree ==
    /\ \A p \in Promises : settled[p] = "resolved" => lazyState = "loaded"
    /\ \A p \in sinceLoad : settled[p] = "rejected" => lazyState \in {"error", "timeout"}
    /\ (lazyLast.called /\ lazyLast.inflight # 0) => lazyLast.returned = lazyLast.inflight

\* C39 for the runs in which no timeout timer fires
C39_WhenNoTimeoutFires ==
    timedOut = {} => C39_PromiseAndStateAgree

====
